---------------------------- MODULE Spec2Model ----------------------------
(***************************************************************************)
(* Model of the match score decoder of the ATP extractor                   *)
(* (src/ETL/Extractor/MatchesBaseExtractor.py) and of the loop that calls  *)
(* it.  A Python str is a sequence of one-character strings; an Optional   *)
(* value is <<>> (None) or <<v>> (the value v).                            *)
(***************************************************************************)
EXTENDS Integers, Sequences, FiniteSets, TLC

VARIABLES workload, frames, calls, rows, phase, dic_match_scores_skip_adj, data,
          dic_match_scores_adj, dic_match_scores_stats_url_adj, fills, node,
          batch, chrome, runner, rankings, updater

\* the three adjustment mappings of MatchesBaseExtractor._init and the count of
\* the loads of each
adjustments ==
  <<dic_match_scores_adj, dic_match_scores_stats_url_adj, dic_match_scores_skip_adj, fills>>

\* the state of the programs beside the matches extractor: BaseExtractor.extract,
\* _request_url_by_chrome, the runner, the rankings scraper, the score updater
elsewhere == <<batch, chrome, runner, rankings, updater>>

vars == <<workload, frames, calls, rows, phase, data, node, adjustments, elsewhere>>

(***************************************************************************)
(* Python values                                                           *)
(***************************************************************************)
None == <<>>

Some(v) == <<v>>

\* The characters score texts are made of, in code point order: Python
\* compares characters and strings by code point, so only the order matters.
Ascii ==
  << " ", "(", ")", "+", "-", ".", "/",
     "0", "1", "2", "3", "4", "5", "6", "7", "8", "9", ":",
     "A", "B", "C", "D", "E", "F", "G", "H", "I", "J", "K", "L", "M",
     "N", "O", "P", "Q", "R", "S", "T", "U", "V", "W", "X", "Y", "Z",
     "[", "]", "_",
     "a", "b", "c", "d", "e", "f", "g", "h", "i", "j", "k", "l", "m",
     "n", "o", "p", "q", "r", "s", "t", "u", "v", "w", "x", "y", "z" >>

\* the rank of ord(c) among the characters above
Ord(c) == CHOOSE i \in 1..Len(Ascii) : Ascii[i] = c

Digits == <<"0", "1", "2", "3", "4", "5", "6", "7", "8", "9">>

IsDigit(c) == \E i \in 1..Len(Digits) : Digits[i] = c

DigitValue(c) == (CHOOSE i \in 1..Len(Digits) : Digits[i] = c) - 1

IsSpace(c) == c = " "

\* str.upper() on one character: 'a'..'z' become 'A'..'Z'
UpperChar(c) ==
  IF Ord(c) >= Ord("a") /\ Ord(c) <= Ord("z")
  THEN Ascii[Ord(c) - (Ord("a") - Ord("A"))]
  ELSE c

Upper(s) == [i \in 1..Len(s) |-> UpperChar(s[i])]

\* str.strip(): leading and trailing whitespace removed
RECURSIVE LStrip(_)
LStrip(s) == IF s # <<>> /\ IsSpace(Head(s)) THEN LStrip(Tail(s)) ELSE s

RECURSIVE RStrip(_)
RStrip(s) ==
  IF s # <<>> /\ IsSpace(s[Len(s)]) THEN RStrip(SubSeq(s, 1, Len(s) - 1)) ELSE s

Strip(s) == RStrip(LStrip(s))

\* the `in` operator on strings: pat occurs in s
Contains(s, pat) ==
  \E i \in 1..(Len(s) - Len(pat) + 1) : SubSeq(s, i, i + Len(pat) - 1) = pat

\* str.split() without arguments: the maximal runs of non-whitespace
WordLen(s) ==
  IF \E i \in 1..Len(s) : IsSpace(s[i])
  THEN (CHOOSE i \in 1..Len(s) :
          IsSpace(s[i]) /\ \A j \in 1..(i - 1) : ~IsSpace(s[j])) - 1
  ELSE Len(s)

\* str.split(' '): every single space separates, so the empty text is one
\* empty word
RECURSIVE split_on_space(_)
split_on_space(s) ==
  IF WordLen(s) = Len(s) THEN <<s>>
  ELSE <<SubSeq(s, 1, WordLen(s))>> \o split_on_space(SubSeq(s, WordLen(s) + 2, Len(s)))

RECURSIVE Split(_)
Split(s) ==
  IF s = <<>> THEN <<>>
  ELSE IF IsSpace(Head(s)) THEN Split(Tail(s))
  ELSE <<SubSeq(s, 1, WordLen(s))>> \o Split(SubSeq(s, WordLen(s) + 1, Len(s)))

\* a < b on strings: lexicographic by code point, a proper prefix is smaller
RECURSIVE StrLess(_, _)
StrLess(a, b) ==
  IF b = <<>> THEN FALSE
  ELSE IF a = <<>> THEN TRUE
  ELSE IF Head(a) # Head(b) THEN Ord(Head(a)) < Ord(Head(b))
  ELSE StrLess(Tail(a), Tail(b))

StrGreater(a, b) == StrLess(b, a)

\* int(s) for a string without whitespace: an optional sign, then decimal
\* digits; Some(n), or None where Python raises ValueError
RECURSIVE DigitsValue(_)
DigitsValue(s) ==
  IF s = <<>> THEN 0
  ELSE 10 * DigitsValue(SubSeq(s, 1, Len(s) - 1)) + DigitValue(s[Len(s)])

AllDigits(s) == s # <<>> /\ \A i \in 1..Len(s) : IsDigit(s[i])

ParseInt(s) ==
  IF AllDigits(s) THEN Some(DigitsValue(s))
  ELSE IF s # <<>> /\ Head(s) = "-" /\ AllDigits(Tail(s))
       THEN Some(0 - DigitsValue(Tail(s)))
  ELSE IF s # <<>> /\ Head(s) = "+" /\ AllDigits(Tail(s))
       THEN Some(DigitsValue(Tail(s)))
  ELSE None


\* str(n) for a natural number n, as in an f-string
RECURSIVE FormatInt(_)
FormatInt(n) ==
  IF n < 10 THEN <<Digits[n + 1]>>
  ELSE FormatInt(n \div 10) \o <<Digits[(n % 10) + 1]>>

(***************************************************************************)
(* get_match_ret                                                           *)
(***************************************************************************)
StrWO == <<"W", "/", "O">>

StrINV == <<"I", "N", "V">>

StrWALKOVER == <<"W", "A", "L", "K", "O", "V", "E", "R">>

StrWEA == <<"W", "E", "A">>

StrRE == <<"R", "E">>

StrRET == <<"R", "E", "T">>

StrDEF == <<"D", "E", "F">>

StrUNP == <<"U", "N", "P">>

StrUNFINISHED == <<"U", "N", "F", "I", "N", "I", "S", "H", "E", "D">>

StrPLAYED_AND == <<"P", "L", "A", "Y", "E", "D", " ", "A", "N", "D", " ">>

StrPLAYED_AND_UNFINISHED == StrPLAYED_AND \o StrUNFINISHED

StrPLAYED_AND_ABANDONED ==
  StrPLAYED_AND \o <<"A", "B", "A", "N", "D", "O", "N", "E", "D">>

FlagWO == <<"(", "W", "/", "O", ")">>

FlagRET == <<"(", "R", "E", "T", ")">>

FlagWEA == <<"(", "W", "E", "A", ")">>

\* match_score or "": None and the empty string are both falsy
OrEmpty(match_score) == IF match_score = None THEN <<>> ELSE match_score[1]

\* get_match_ret with the rules in another order (retirement before walkover)
get_match_ret_ret_first(match_score) ==
  LET s == Strip(OrEmpty(match_score))
      up == Upper(s)
  IN IF s = <<>> THEN None
     ELSE IF Contains(up, StrRE) \/ Contains(up, StrRET) \/ Contains(up, StrDEF)
             \/ Contains(up, StrUNP)
          THEN Some(FlagRET)
     ELSE IF Contains(up, StrWO) \/ Contains(up, StrINV) \/ Contains(up, StrWALKOVER)
          THEN Some(FlagWO)
     ELSE IF Contains(up, StrWEA) THEN Some(FlagWEA)
     ELSE IF Contains(up, StrPLAYED_AND_UNFINISHED)
             \/ Contains(up, StrPLAYED_AND_ABANDONED)
             \/ Contains(up, StrUNFINISHED)
          THEN Some(FlagRET)
     ELSE None

get_match_ret(match_score) ==
  LET s == Strip(OrEmpty(match_score))
      up == Upper(s)
  IN IF s = <<>> THEN None
     ELSE IF Contains(up, StrWO) \/ Contains(up, StrINV) \/ Contains(up, StrWALKOVER)
          THEN Some(FlagWO)
     ELSE IF Contains(up, StrWEA) THEN Some(FlagWEA)
     ELSE IF Contains(up, StrRE) \/ Contains(up, StrRET) \/ Contains(up, StrDEF)
             \/ Contains(up, StrUNP)
          THEN Some(FlagRET)
     ELSE IF Contains(up, StrPLAYED_AND_UNFINISHED)
             \/ Contains(up, StrPLAYED_AND_ABANDONED)
             \/ Contains(up, StrUNFINISHED)
          THEN Some(FlagRET)
     ELSE None

(***************************************************************************)
(* parse_score: the locals of one call are a frame                         *)
(***************************************************************************)
NextGen == <<"7", "6", "9", "6">>

LaverCup == <<"9", "2", "1", "0">>

Olympic == <<"9", "6">>

GrandSlams ==
  { <<"5", "8", "0">>, <<"5", "6", "0">>, <<"5", "4", "0">>, <<"5", "2", "0">> }

SmallPairs ==
  { <<"4", "0">>, <<"4", "1">>, <<"4", "2">>, <<"0", "4">>, <<"1", "4">>, <<"2", "4">> }

BigPairs == { <<"8", "6">>, <<"9", "7">>, <<"6", "8">>, <<"7", "9">> }

NormalPairs ==
  { <<"6", "0">>, <<"6", "1">>, <<"6", "2">>, <<"6", "3">>, <<"6", "4">>,
    <<"7", "5">>, <<"7", "6">>, <<"0", "6">>, <<"1", "6">>, <<"2", "6">>,
    <<"3", "6">>, <<"4", "6">>, <<"5", "7">>, <<"6", "7">> }

Log(f, level, tag) == [f EXCEPT !.log = Append(@, <<level, tag>>)]

\* an exception escapes the loop body: control moves to the handler
Raise(f, exc) == [f EXCEPT !.exc = Some(exc), !.pc = "except"]

\* lines 85-87 with the aggregates kept on the instance and never reset
InitAggregatesOnce(f) == f

\* lines 85-87
InitAggregates(f) ==
  [f EXCEPT !.winner_sets_won = 0, !.loser_sets_won = 0,
            !.winner_games_won = 0, !.loser_games_won = 0,
            !.winner_tiebreaks_won = 0, !.loser_tiebreaks_won = 0]


\* winner_games_won += int(a); loser_games_won += int(b), in this order;
\* int() raises ValueError on the first operand that is no number
AddGames(f, a, b) ==
  IF ParseInt(a) = None THEN Raise(f, "ValueError")
  ELSE LET f1 == [f EXCEPT !.winner_games_won = @ + ParseInt(a)[1]]
       IN IF ParseInt(b) = None THEN Raise(f1, "ValueError")
          ELSE [f1 EXCEPT !.loser_games_won = @ + ParseInt(b)[1]]

\* lines 107-122 with the tie set credited only for the Laver Cup
tie_set_laver_only(f, set_score) ==
  IF f.tournament_code = LaverCup
  THEN Log([f EXCEPT !.winner_sets_won = @ + 1, !.winner_games_won = @ + 1,
                     !.winner_tiebreaks_won = @ + 1], "info", "tie set Laver Cup")
  ELSE Log(f, "warning", "tie set non-Laver")

\* lines 107-122: a token containing '['
tie_set(f, set_score) ==
  LET f1 == [f EXCEPT !.winner_sets_won = @ + 1, !.winner_games_won = @ + 1]
      f2 == IF f.tournament_code = LaverCup
            THEN Log(f1, "info", "tie set Laver Cup")
            ELSE Log(f1, "warning", "tie set non-Laver")
  IN [f2 EXCEPT !.winner_tiebreaks_won = @ + 1]

\* lines 128-141: the whitelist diagnostics of a two-character token
white_list(f, pair) ==
  IF f.tournament_code = NextGen /\ pair \in SmallPairs
  THEN Log(f, "info", "small score NextGen")
  ELSE IF pair \in BigPairs /\ f.tournament_code \in GrandSlams
  THEN Log(f, "info", "big score Grand Slam")
  ELSE IF pair \in BigPairs /\ f.tournament_code = Olympic
  THEN Log(f, "warning", "big score Olympic")
  ELSE IF pair \notin NormalPairs
  THEN Log(f, "error", "score not in white list")
  ELSE f

\* lines 148-153 and 158-163 without the NextGen test: '43' and '34' are
\* tiebreaks under every tournament code
two_char_tiebreak_any_code(f, pair, side, hi, lo) ==
  LET tb == IF side = "winner" THEN <<"7", "6">> ELSE <<"6", "7">>
      ng == IF side = "winner" THEN <<"4", "3">> ELSE <<"3", "4">>
      credit(g) == IF side = "winner"
                   THEN [g EXCEPT !.winner_tiebreaks_won = @ + 1]
                   ELSE [g EXCEPT !.loser_tiebreaks_won = @ + 1]
  IN IF pair = tb \/ pair = ng THEN credit(f)
     ELSE IF ParseInt(<<hi>>)[1] - ParseInt(<<lo>>)[1] < 2
          THEN Log(f, "error", IF side = "winner" THEN "(win) margin <2"
                                                  ELSE "(los) margin <2")
     ELSE f

\* lines 148-153 and 158-163: the tiebreak credit or the margin check of a
\* two-character set won by `side`; hi and lo are the winning and losing digit
two_char_tiebreak(f, pair, side, hi, lo) ==
  LET tb == IF side = "winner" THEN <<"7", "6">> ELSE <<"6", "7">>
      ng == IF side = "winner" THEN <<"4", "3">> ELSE <<"3", "4">>
      credit(g) == IF side = "winner"
                   THEN [g EXCEPT !.winner_tiebreaks_won = @ + 1]
                   ELSE [g EXCEPT !.loser_tiebreaks_won = @ + 1]
  IN IF pair = tb THEN credit(f)
     ELSE IF pair = ng /\ f.tournament_code = NextGen THEN credit(f)
     ELSE IF ParseInt(<<hi>>)[1] - ParseInt(<<lo>>)[1] < 2
          THEN Log(f, "error", IF side = "winner" THEN "(win) margin <2"
                                                  ELSE "(los) margin <2")
     ELSE f

\* lines 144-165 with a set whose margin is below 2 discarded, not flagged
two_char_discard(f, set_score) ==
  LET f0 == white_list(f, set_score)
      c0 == set_score[1]
      c1 == set_score[2]
      g  == AddGames(f0, <<c0>>, <<c1>>)
  IN IF Ord(c0) = Ord(c1) THEN Log(f0, "error", "len==2 but equal digits")
     ELSE IF g.exc # None THEN g
     ELSE IF Ord(c0) > Ord(c1)
     THEN IF set_score # <<"7", "6">> /\ DigitValue(c0) - DigitValue(c1) < 2
          THEN Log(f0, "error", "(win) margin <2")
          ELSE two_char_tiebreak([g EXCEPT !.winner_sets_won = @ + 1],
                                 set_score, "winner", c0, c1)
     ELSE IF set_score # <<"6", "7">> /\ DigitValue(c1) - DigitValue(c0) < 2
          THEN Log(f0, "error", "(los) margin <2")
          ELSE two_char_tiebreak([g EXCEPT !.loser_sets_won = @ + 1],
                                 set_score, "loser", c1, c0)

\* lines 144-165 with line 144 reading >= : equal digits are a set of the
\* winner's
two_char_ge(f, set_score) ==
  LET f0 == white_list(f, set_score)
      c0 == set_score[1]
      c1 == set_score[2]
  IN IF Ord(c0) >= Ord(c1)
     THEN LET g == AddGames([f0 EXCEPT !.winner_sets_won = @ + 1], <<c0>>, <<c1>>)
          IN IF g.exc # None THEN g
             ELSE two_char_tiebreak(g, set_score, "winner", c0, c1)
     ELSE LET g == AddGames([f0 EXCEPT !.loser_sets_won = @ + 1], <<c0>>, <<c1>>)
          IN IF g.exc # None THEN g
             ELSE two_char_tiebreak(g, set_score, "loser", c1, c0)

\* lines 125-165: a token of two characters
two_char(f, set_score) ==
  LET f0 == white_list(f, set_score)
      c0 == set_score[1]
      c1 == set_score[2]
  IN IF Ord(c0) > Ord(c1)
     THEN LET g == AddGames([f0 EXCEPT !.winner_sets_won = @ + 1], <<c0>>, <<c1>>)
          IN IF g.exc # None THEN g
             ELSE two_char_tiebreak(g, set_score, "winner", c0, c1)
     ELSE IF Ord(c0) < Ord(c1)
     THEN LET g == AddGames([f0 EXCEPT !.loser_sets_won = @ + 1], <<c0>>, <<c1>>)
          IN IF g.exc # None THEN g
             ELSE two_char_tiebreak(g, set_score, "loser", c1, c0)
     ELSE Log(f0, "error", "len==2 but equal digits")

\* lines 168-185 with line 171 reading int(set_score[0:2]) for '810' as well,
\* and the winners' games read from the token instead of looked up
three_char_first_two(f, set_score) ==
  IF set_score \in { <<"8", "1", "0">>, <<"9", "1", "1">> }
  THEN [f EXCEPT !.loser_sets_won = @ + 1,
                 !.loser_games_won = @ + ParseInt(SubSeq(set_score, 1, 2))[1],
                 !.winner_games_won = @ + ParseInt(<<set_score[3]>>)[1]]
  ELSE IF set_score \in { <<"1", "0", "8">>, <<"1", "0", "6">>,
                          <<"1", "0", "7">>, <<"1", "1", "9">> }
  THEN [f EXCEPT !.winner_sets_won = @ + 1,
                 !.winner_games_won = @ + ParseInt(SubSeq(set_score, 1, 2))[1],
                 !.loser_games_won = @ + ParseInt(<<set_score[3]>>)[1]]
  ELSE Log(f, "error", "len==3 unrecognized")

\* lines 168-185: a token of three characters
three_char(f, set_score) ==
  IF set_score \in { <<"8", "1", "0">>, <<"9", "1", "1">> }
  THEN [f EXCEPT !.loser_sets_won = @ + 1,
                 !.loser_games_won =
                    @ + (IF set_score = <<"9", "1", "1">>
                         THEN ParseInt(SubSeq(set_score, 1, 2))[1] ELSE 10),
                 !.winner_games_won = @ + ParseInt(<<set_score[3]>>)[1]]
  ELSE IF set_score = <<"1", "0", "8">>
  THEN [f EXCEPT !.winner_sets_won = @ + 1,
                 !.winner_games_won = @ + 10, !.loser_games_won = @ + 8]
  ELSE IF set_score = <<"1", "0", "6">>
  THEN [f EXCEPT !.winner_sets_won = @ + 1,
                 !.winner_games_won = @ + 10, !.loser_games_won = @ + 6]
  ELSE IF set_score = <<"1", "0", "7">>
  THEN [f EXCEPT !.winner_sets_won = @ + 1,
                 !.winner_games_won = @ + 10, !.loser_games_won = @ + 7]
  ELSE IF set_score = <<"1", "1", "9">>
  THEN [f EXCEPT !.winner_sets_won = @ + 1,
                 !.winner_games_won = @ + 11, !.loser_games_won = @ + 9]
  ELSE Log(f, "error", "len==3 unrecognized")

\* lines 199-200 and 205-206: the margin check of a four-character set
four_char_margin(f, hi, lo, side) ==
  IF ParseInt(hi)[1] - ParseInt(lo)[1] < 2
  THEN Log(f, "error", IF side = "winner" THEN "(win) margin <2"
                                          ELSE "(los) margin <2")
  ELSE f

\* lines 188-210 with lines 203-204 crossed: the greater half always goes to
\* the games of the side that won the set
four_char_crossed(f, set_score) ==
  LET f0 == IF f.tournament_code \notin GrandSlams
               \/ StrGreater(set_score, <<"2", "2", "0", "0">>)
            THEN Log(f, "warning", "huge score")
            ELSE f
      left == SubSeq(set_score, 1, 2)
      right == SubSeq(set_score, 3, 4)
  IN IF StrGreater(left, right)
     THEN LET g == AddGames([f0 EXCEPT !.winner_sets_won = @ + 1], left, right)
          IN IF g.exc # None THEN g ELSE four_char_margin(g, left, right, "winner")
     ELSE IF StrGreater(right, left)
     THEN LET g == AddGames([f0 EXCEPT !.loser_sets_won = @ + 1], right, left)
          IN IF g.exc # None THEN g ELSE four_char_margin(g, right, left, "loser")
     ELSE Log(f0, "error", "len==4 but tie")

\* lines 188-210: a token of four characters
four_char(f, set_score) ==
  LET f0 == IF f.tournament_code \notin GrandSlams
               \/ StrGreater(set_score, <<"2", "2", "0", "0">>)
            THEN Log(f, "warning", "huge score")
            ELSE f
      left == SubSeq(set_score, 1, 2)
      right == SubSeq(set_score, 3, 4)
  IN IF StrGreater(left, right)
     THEN LET g == AddGames([f0 EXCEPT !.winner_sets_won = @ + 1], left, right)
          IN IF g.exc # None THEN g ELSE four_char_margin(g, left, right, "winner")
     ELSE IF StrGreater(right, left)
     THEN LET g == AddGames([f0 EXCEPT !.loser_sets_won = @ + 1], left, right)
          IN IF g.exc # None THEN g ELSE four_char_margin(g, right, left, "loser")
     ELSE Log(f0, "error", "len==4 but tie")

\* lines 213-228 with lines 219 and 224 crossed: the tiebreak goes to the side
\* that lost the set
long_tiebreak_crossed(f, set_score) ==
  LET left == SubSeq(set_score, 1, 2)
      right == SubSeq(set_score, 3, 4)
  IN IF StrGreater(left, right)
     THEN LET g == AddGames([f EXCEPT !.winner_sets_won = @ + 1], left, right)
          IN IF g.exc # None THEN g
             ELSE [g EXCEPT !.loser_tiebreaks_won = @ + 1]
     ELSE IF StrLess(left, right)
     THEN LET g == AddGames([f EXCEPT !.loser_sets_won = @ + 1], left, right)
          IN IF g.exc # None THEN g
             ELSE [g EXCEPT !.winner_tiebreaks_won = @ + 1]
     ELSE Log(f, "error", "len>=7 but tie")

\* lines 213-228 with line 216 pasted over line 219 (and 221 over 224): the
\* set is counted a second time where the tiebreak should be
long_tiebreak_pasted(f, set_score) ==
  LET left == SubSeq(set_score, 1, 2)
      right == SubSeq(set_score, 3, 4)
  IN IF StrGreater(left, right)
     THEN LET g == AddGames([f EXCEPT !.winner_sets_won = @ + 1], left, right)
          IN IF g.exc # None THEN g
             ELSE [g EXCEPT !.winner_sets_won = @ + 1]
     ELSE IF StrLess(left, right)
     THEN LET g == AddGames([f EXCEPT !.loser_sets_won = @ + 1], left, right)
          IN IF g.exc # None THEN g
             ELSE [g EXCEPT !.loser_sets_won = @ + 1]
     ELSE Log(f, "error", "len>=7 but tie")

\* lines 213-228: a token of seven or more characters
long_tiebreak(f, set_score) ==
  LET left == SubSeq(set_score, 1, 2)
      right == SubSeq(set_score, 3, 4)
  IN IF StrGreater(left, right)
     THEN LET g == AddGames([f EXCEPT !.winner_sets_won = @ + 1], left, right)
          IN IF g.exc # None THEN g
             ELSE [g EXCEPT !.winner_tiebreaks_won = @ + 1]
     ELSE IF StrLess(left, right)
     THEN LET g == AddGames([f EXCEPT !.loser_sets_won = @ + 1], left, right)
          IN IF g.exc # None THEN g
             ELSE [g EXCEPT !.loser_tiebreaks_won = @ + 1]
     ELSE Log(f, "error", "len>=7 but tie")

\* lines 230-231 raising instead of logging: a shape no branch takes is a
\* fault of the whole call
unhandled_raises(f, set_score) == Raise(f, "ValueError")

\* lines 230-231: any other length
unhandled(f, set_score) == Log(f, "error", "Unhandled set format")


(***************************************************************************)
(* The inputs: score texts, tournament codes and match ids                 *)
(***************************************************************************)
\* the most tokens of a generated score text
MaxTokens == 2

\* the longest run of spaces between two tokens of a generated score text
MaxSpaces == 2

\* the most match nodes the loop of one caller goes through
MaxCalls == 2

Slots == {1, 2}

Spaces(n) == [i \in 1..n |-> " "]

RECURSIVE Join(_, _)
Join(words, sep) ==
  IF words = <<>> THEN <<>>
  ELSE IF Len(words) = 1 THEN words[1]
  ELSE words[1] \o sep \o Join(Tail(words), sep)

\* every pair of decimal digits
DigitPairs == { <<Digits[i], Digits[j]>> : i, j \in 1..Len(Digits) }

\* tokens of every other shape: non-digits, brackets, 1 and 3 to 9 characters
OtherTokens ==
  {
    <<"6", "a">>, <<"a", "6">>, <<"a", "a">>, <<"-", "5">>, <<"6", "]">>,
    <<"+", "5">>, <<"[", "1", "0", "-", "8", "]">>,
    <<"1", "0", "[", "8", "]">>, <<"[">>, <<"6", "[">>,
    <<"7", "6", "[", "7", "]">>, <<"8", "1", "0">>, <<"9", "1", "1">>,
    <<"1", "0", "8">>, <<"1", "0", "6">>, <<"1", "0", "7">>,
    <<"1", "1", "9">>, <<"1", "0", "9">>, <<"7", "6", "5">>,
    <<"a", "b", "c">>, <<"8", "0", "1">>, <<"2", "2", "2", "0">>,
    <<"2", "0", "2", "2">>, <<"1", "2", "1", "0">>, <<"1", "0", "1", "2">>,
    <<"0", "7", "0", "8">>, <<"6", "6", "6", "6">>, <<"2", "4", "2", "2">>,
    <<"9", "8", "1", "0">>, <<"1", "0", "9", "8">>, <<"a", "b", "1", "2">>,
    <<"1", "2", "a", "b">>, <<"-", "5", "-", "3">>, <<"+", "5", "+", "3">>,
    <<"6">>, <<"7", "6", "(", "5", ")">>, <<"6", "4", "(", "5", ")">>,
    <<"7", "6", "1", "2", "1", "0">>, <<"7", "6", "6", "7", "1", "2", "3">>,
    <<"6", "7", "7", "6", "1", "2", "3">>,
    <<"6", "7", "6", "7", "1", "2", "3">>,
    <<"7", "6", "(", "1", "2", "-", "1", "0", ")">>,
    <<"a", "b", "1", "2", "3", "4", "5">>,
    <<"1", "2", "1", "0", "(", "7", "-", "5", ")">>
  }

\* the tokens and markers that multi-token score texts are made of
SmallTokens ==
  {
    <<"6", "4">>, <<"7", "6">>, <<"6", "a">>, <<"[", "1", "0", "-", "8", "]">>
  }

\* outcome markers and phrases as the site and the adjustments table write them
Phrases ==
  {
    <<<<"P", "l", "a", "y", "e", "d">>, <<"a", "n", "d">>, <<"u", "n", "f", "i", "n", "i", "s", "h", "e", "d">>>>,
    <<<<"P", "l", "a", "y", "e", "d">>, <<"a", "n", "d">>, <<"a", "b", "a", "n", "d", "o", "n", "e", "d">>>>,
    <<<<"P", "L", "A", "Y", "E", "D">>, <<"A", "N", "D">>, <<"A", "B", "A", "N", "D", "O", "N", "E", "D">>>>,
    <<<<"u", "n", "f", "i", "n", "i", "s", "h", "e", "d">>>>,
    <<<<"W", "a", "l", "k", "o", "v", "e", "r">>>>,
    <<<<"I", "N", "V">>>>,
    <<<<"D", "e", "f", ".">>>>,
    <<<<"U", "N", "P">>>>,
    <<<<"R", "e", "t", "i", "r", "e", "d">>>>,
    <<<<"M", "o", "r", "e">>>>,
    <<<<"a", "b", "a", "n", "d", "o", "n", "e", "d">>>>,
    <<<<"r", "e", "t">>>>,
    <<<<"w", "/", "o">>>>,
    <<<<"W", "E", "A">>>>,
    <<<<"I", "n", "v", ".">>>>,
    <<<<"d", "e", "f">>>>,
    <<<<"u", "n", "p">>>>,
    <<<<"6", "4">>, <<"3", "1">>, <<"R", "E", "T">>>>,
    <<<<"W", "E", "A">>, <<"R", "E", "T">>>>,
    <<<<"r", "e", "t">>, <<"w", "e", "a">>>>,
    <<<<"w", "/", "o">>, <<"w", "e", "a">>>>,
    <<<<"w", "e", "a">>, <<"W", "/", "O">>>>,
    <<<<"6", "4">>, <<"w", "e", "a">>>>,
    <<<<"R", "E", "T">>>>,
    <<<<"W", "/", "O">>>>,
    <<<<"6", "4">>, <<"R", "E", "T">>>>,
    <<<<"R", "E", "T">>, <<"6", "4">>>>,
    <<<<"R", "E", "T">>, <<"W", "/", "O">>>>,
    <<<<"W", "/", "O">>, <<"R", "E", "T">>>>,
    <<<<"3", "3">>, <<"6", "4">>>>,
    <<<<"6", "4">>, <<"3", "3">>>>,
    <<<<"7", "6", "5">>, <<"6", "4">>>>,
    <<<<"6", "4">>, <<"7", "6", "5">>>>,
    <<<<"6", "4">>, <<"7", "6", "(", "5", ")">>>>,
    <<<<"7", "6", "(", "5", ")">>, <<"6", "4">>>>,
    <<<<"3", "3">>, <<"6", "a">>>>,
    <<<<"7", "6", "(", "5", ")">>, <<"6", "a">>>>,
    <<<<"6", "a">>, <<"R", "E", "T">>>>
  }

TokenSeqs ==
  { <<t>> : t \in DigitPairs \cup OtherTokens }
    \cup UNION { [1..n -> SmallTokens] : n \in 0..MaxTokens }
    \cup Phrases

\* the tokens joined by runs of `gap` spaces, inside `pad` spaces on each side
Layout(words, gap, pad) == Spaces(pad) \o Join(words, Spaces(gap)) \o Spaces(pad)

\* MatchesATPExtractor lines 126-142: the score text composed from the
\* per-set cells of the results page; a set with a tiebreak cell is written
\* w l '(' tb ')'
compose_score_from_score_item_arrays(winner_score_array, loser_score_array, tiebreak_array) ==
  LET n == IF Len(winner_score_array) < Len(loser_score_array)
           THEN Len(winner_score_array) ELSE Len(loser_score_array)
      part(i) ==
        LET w == Strip(winner_score_array[i])
            l == Strip(loser_score_array[i])
            tb == IF i <= Len(tiebreak_array) THEN Strip(tiebreak_array[i]) ELSE <<>>
        IN IF tb # <<>> THEN w \o l \o <<"(">> \o tb \o <<")">> ELSE w \o l
      parts == [i \in 1..n |-> part(i)]
  IN Strip(Join(SelectSeq(parts, LAMBDA p : p # <<>>), <<" ">>))

\* the cells of whole matches as the results page shows them: the winner's
\* games, the loser's games and the tiebreak details, set by set
ScoreItemArrays ==
  { << <<>>, <<>>, <<>> >>,
    << << <<"6">>, <<"7">> >>, << <<"4">>, <<"6">> >>, << <<>>, <<"5">> >> >>,
    << << <<"6">>, <<"3">>, <<"7">> >>, << <<"4">>, <<"6">>, <<"6">> >>,
       << <<>>, <<>>, <<"5">> >> >>,
    << << <<"6">>, <<"6">> >>, << <<"4">>, <<" ", "3">> >>, <<>> >>,
    << << <<"6">>, <<"4">>, <<"6">> >>, << <<"4">>, <<"6">>, <<"3">> >>, <<>> >>,
    << << <<"6">>, <<"6">>, <<"6">> >>, << <<"4">>, <<"3">>, <<"2">> >>, <<>> >>,
    << << <<"6">>, <<"4">>, <<"6">>, <<"6">> >>,
       << <<"4">>, <<"6">>, <<"3">>, <<"2">> >>, <<>> >>,
    << << <<"6">>, <<"4">>, <<"6">>, <<"4">>, <<"6">> >>,
       << <<"4">>, <<"6">>, <<"3">>, <<"6">>, <<"2">> >>, <<>> >>,
    << << <<"6">>, <<"6">>, <<"6">>, <<"6">> >>,
       << <<"4">>, <<"3">>, <<"2">>, <<"1">> >>, <<>> >>,
    << << <<"4">>, <<"3">>, <<"2">> >>, << <<"6">>, <<"6">>, <<"6">> >>, <<>> >>,
    << << <<"6">>, <<"4">>, <<"4">> >>, << <<"4">>, <<"6">>, <<"6">> >>, <<>> >> }

ComposedScores ==
  { Some(compose_score_from_score_item_arrays(a[1], a[2], a[3])) : a \in ScoreItemArrays }

SingleScores ==
  { Some(Layout(ws, gap, gap - 1)) : ws \in TokenSeqs, gap \in 1..MaxSpaces }
    \cup ComposedScores \cup {None}

RepeatScores ==
  { Some(Join(ws, <<" ">>)) : ws \in {
    <<<<"6", "4">>, <<"7", "5">>>>,
    <<<<"7", "6">>, <<"4", "3">>>>,
    <<<<"R", "E", "T">>>>,
    <<<<"6", "a">>>>,
    <<<<"[", "1", "0", "-", "8", "]">>, <<"1", "0", "8">>, <<"2", "2", "2", "0">>,
      <<"7", "6", "6", "7", "1", "2", "3">>, <<"6">>>> } }
    \cup {None}

Code250 == <<"2", "5", "0">>

Code520 == <<"5", "2", "0">>

\* the texts of the calls that run side by side: one token of every kind
ThreadScores ==
  { Some(<<"6", "4", " ", "7", "6">>),
    Some(<<"[", "1", "0", "-", "8", "]", " ", "1", "0", "8">>),
    Some(<<"2", "2", "2", "0", " ", "7", "6", "6", "7", "1", "2", "3", " ", "6">>),
    Some(<<"6", "a">>),
    Some(<<"R", "E", "T">>) }

ScoresOf(w) ==
  IF w = "single" THEN SingleScores
  ELSE IF w = "threads" THEN ThreadScores
  ELSE RepeatScores

EmptyDict == [x \in {} |-> <<>>]

\* the set_score column of the adjustments table, as one fetch may find it:
\* no row, or a row for match m1 whose text is clean, holds a run of two
\* spaces, or is a walkover
ScoreAdjOf(w) ==
  IF w = "rows"
  THEN { EmptyDict,
         [x \in {"m1"} |-> <<"6", "4", " ", "7", "5">>],
         [x \in {"m1"} |-> <<"6", "4", " ", " ", "7", "5">>],
         [x \in {"m1"} |-> <<"W", "/", "O">>] }
  ELSE { EmptyDict }

\* the stats_url column of the adjustments table
StatsUrlAdjOf(w) ==
  IF w = "rows"
  THEN { EmptyDict, [x \in {"m2"} |-> <<"u", "2">>] }
  ELSE { EmptyDict }

CodesOf(w) ==
  IF w = "single" THEN {NextGen, LaverCup, Code520, Olympic, Code250}
  ELSE IF w = "threads" THEN {Code250}
  ELSE {NextGen, Code250}

IdsOf(w) == IF w = "single" THEN {"m1"} ELSE {"m1", "m2"}

\* MatchesATPExtractor lines 308-371: what the loop reads off a match node of
\* a results page: the id, the score text of lines 320-336, the tournament
\* code, the href of the stats link if there is one, the duration text
MatchNode(id, scraped, code, href, dur) ==
  [ match_id |-> id, scraped |-> scraped, tournament_code |-> code,
    stats_href |-> href, dur_text |-> dur ]

IdleNode == MatchNode("", <<>>, <<>>, None, <<>>)

\* the match nodes of the results pages of the rows workload
RowNodes ==
  { MatchNode("m1", <<"6", "4", " ", "7", "5">>, Code250,
              Some(<<" ", "/", "s">>), <<"1", ":", "3", "5">>),
    MatchNode("m1", <<"7", "6", "(", "5", ")", " ", " ", "6", "4">>, Code250,
              None, <<>>),
    MatchNode("m1", <<"2", "2", "2", "0", " ", "7", "6", "6", "7", "1", "2", "3", " ", "6">>,
              Code250, None, <<"9", "5">>),
    MatchNode("m2", <<"W", "/", "O">>, Code250, None, <<>>),
    MatchNode("m2", <<"4", "3", " ", "3", "4", " ", "4", "3">>, NextGen,
              Some(<<"/", "s">>), <<"x", ":", "1">>),
    MatchNode("m2", <<"[", "1", "0", "-", "8", "]", " ", " ", " ", "1", "0", "8">>, Code250,
              Some(<<"/", "s">>), <<"0", ":", "5", "9">>),
    MatchNode("m2", <<"6", "a">>, Code250, None, <<>>),
    MatchNode("m2", <<>>, Code250, None, <<>>),
    MatchNode("m3", <<"6", "4", " ", "6", "4">>, Code250, None, <<>>) }

NodesOf(w) == IF w = "rows" THEN RowNodes ELSE {}

\* the callers that run: one, or two
CallersOf(w) == IF w \in {"single", "rows"} THEN {1} ELSE Slots

\* the callers take turns: a call of parse_score starts when no other runs. In
\* the threads workload two threads call parse_score on the one extractor and
\* their steps interleave
TakeTurns(w) == w # "threads"

\* the match ids the adjustments table holds with to_skip set
SkipRowsOf(w) == IF w = "single" THEN {"m2"} ELSE {"m3"}

\* the ids of the match nodes the results pages hold
MatchIdsOf(w) == IdsOf(w) \cup SkipRowsOf(w)


(***************************************************************************)
(* The state: per caller, the frame of its parse_score call                *)
(***************************************************************************)
AllNone == <<None, None, None, None, None, None, None>>

IdleFrame ==
  [ pc |-> "idle", match_score |-> None, match_id |-> "", tournament_code |-> <<>>,
    match_ret |-> None, match_score_array |-> <<>>, pos |-> 0,
    winner_sets_won |-> 0, loser_sets_won |-> 0,
    winner_games_won |-> 0, loser_games_won |-> 0,
    winner_tiebreaks_won |-> 0, loser_tiebreaks_won |-> 0,
    log |-> <<>>, exc |-> None, score_array |-> <<>> ]

\* line 343 and lines 57-87: parse_score is entered with its three arguments;
\* its locals start unset and lines 85-87 initialise the aggregates
enter(f, score, id, code) ==
  InitAggregates([f EXCEPT !.pc = "classify", !.match_score = score,
                           !.match_id = id, !.tournament_code = code,
                           !.match_ret = None, !.match_score_array = <<>>,
                           !.pos = 0, !.log = <<>>, !.exc = None,
                           !.score_array = <<>>])

\* line 92 with the test dropped: set decoding is never skipped
never_short_circuits(match_ret) == FALSE

\* line 92: if match_ret is not None
is_not_played(match_ret) == match_ret # None

\* lines 89-95: classify, and return at once when the match was not played
classify(f) ==
  LET g == [f EXCEPT !.match_ret = get_match_ret(f.match_score)]
  IN IF is_not_played(g.match_ret)
     THEN [g EXCEPT !.pc = "returned",
                    !.score_array = <<g.match_ret, None, None, None, None, None, None>>]
     ELSE [g EXCEPT !.pc = "loop_entry"]

\* line 98: match_score.split(); None has no split
split_score(f) ==
  IF f.match_score = None THEN Raise(f, "AttributeError")
  ELSE [f EXCEPT !.match_score_array = Split(f.match_score[1]), !.pc = "loop"]

IsBracket(tok) == \E i \in 1..Len(tok) : tok[i] = "["

\* lines 107, 125, 168, 188, 213, 230: the branch a token takes
TokenKind(tok) ==
  IF IsBracket(tok) THEN "BracketTieSet"
  ELSE IF Len(tok) = 2 THEN "TwoChar"
  ELSE IF Len(tok) = 3 THEN "ThreeChar"
  ELSE IF Len(tok) = 4 THEN "FourChar"
  ELSE IF Len(tok) >= 7 THEN "LongTiebreak"
  ELSE "Unhandled"

\* lines 100-231: the loop body on one token
decode_token(f, set_score) ==
  CASE TokenKind(set_score) = "BracketTieSet" -> tie_set(f, set_score)
    [] TokenKind(set_score) = "TwoChar" -> two_char(f, set_score)
    [] TokenKind(set_score) = "ThreeChar" -> three_char(f, set_score)
    [] TokenKind(set_score) = "FourChar" -> four_char(f, set_score)
    [] TokenKind(set_score) = "LongTiebreak" -> long_tiebreak(f, set_score)
    [] OTHER -> unhandled(f, set_score)

\* line 100: the token the loop is at
set_score_of(f) == f.match_score_array[f.pos + 1]

HasToken(f) == f.pc = "loop" /\ f.pos < Len(f.match_score_array)

\* one iteration of the loop: the body, then on to the next token unless the
\* body raised
iterate(f) ==
  LET g == decode_token(f, set_score_of(f))
  IN IF g.exc # None THEN g ELSE [g EXCEPT !.pos = @ + 1]

\* line 234
Allowed ==
  { <<"3", "0">>, <<"3", "1">>, <<"3", "2">>, <<"2", "1">>, <<"2", "0">> }

\* lines 234-246 with the sanity check blocking: a set count outside the
\* list is answered with the all-None list
validate_blocking(f) ==
  IF FormatInt(f.winner_sets_won) \o FormatInt(f.loser_sets_won) \notin Allowed
  THEN [Log(f, "error", "unexpected match score") EXCEPT
          !.pc = "returned", !.score_array = AllNone]
  ELSE [f EXCEPT !.pc = "returned",
                 !.score_array =
                    << f.match_ret,
                       Some(f.winner_sets_won), Some(f.loser_sets_won),
                       Some(f.winner_games_won), Some(f.loser_games_won),
                       Some(f.winner_tiebreaks_won), Some(f.loser_tiebreaks_won) >>]

\* lines 234-246: the sanity check on the set count, then the result
validate(f) ==
  LET g == IF FormatInt(f.winner_sets_won) \o FormatInt(f.loser_sets_won) \notin Allowed
           THEN Log(f, "error", "unexpected match score")
           ELSE f
  IN [g EXCEPT !.pc = "returned",
               !.score_array =
                  << g.match_ret,
                     Some(g.winner_sets_won), Some(g.loser_sets_won),
                     Some(g.winner_games_won), Some(g.loser_games_won),
                     Some(g.winner_tiebreaks_won), Some(g.loser_tiebreaks_won) >>]

\* line 248 with a handler for ValueError alone
handles_value_error(exc) == exc = "ValueError"

\* line 248: except Exception
handles(exc) == exc \in {"ValueError", "AttributeError"}

\* lines 248-250: the outer guard; an exception it does not handle leaves
\* parse_score and reaches the caller
handler(f) ==
  IF handles(f.exc[1])
  THEN [Log(f, "error", "parse_score error") EXCEPT
          !.pc = "returned", !.score_array = AllNone]
  ELSE [f EXCEPT !.pc = "raised"]

\* one step of a call that has not ended
step(f) ==
  CASE f.pc = "classify" -> classify(f)
    [] f.pc = "loop_entry" -> split_score(f)
    [] f.pc = "loop" -> IF HasToken(f) THEN iterate(f) ELSE validate(f)
    [] f.pc = "except" -> handler(f)

RECURSIVE run(_)
run(f) == IF f.pc \in {"returned", "raised"} THEN f ELSE run(step(f))

\* lines 57-250: the list parse_score returns, as a function of its arguments
parse_score(match_score, match_id, tournament_code) ==
  run(enter(IdleFrame, match_score, match_id, tournament_code)).score_array

\* the call is over and its row stored: the arguments, the locals and the
\* result are gone; the cells that held the aggregates keep their last values
\* until lines 85-87 of a later call overwrite them
pop_frame(f) ==
  [IdleFrame EXCEPT !.winner_sets_won = f.winner_sets_won,
                    !.loser_sets_won = f.loser_sets_won,
                    !.winner_games_won = f.winner_games_won,
                    !.loser_games_won = f.loser_games_won,
                    !.winner_tiebreaks_won = f.winner_tiebreaks_won,
                    !.loser_tiebreaks_won = f.loser_tiebreaks_won]

(***************************************************************************)
(* The actions                                                             *)
(***************************************************************************)
\* no program beside the matches extractor is running
Elsewhere ==
  /\ batch = <<>>
  /\ chrome = <<>>
  /\ runner = <<>>
  /\ rankings = <<>>
  /\ updater = <<>>

\* the matches extractor before its batch starts
Matches(w) ==
  /\ workload = w
  /\ frames = [t \in Slots |-> IdleFrame]
  /\ calls = [t \in Slots |-> 0]
  /\ rows = 0
  /\ phase = "load"
  /\ dic_match_scores_adj = EmptyDict
  /\ dic_match_scores_stats_url_adj = EmptyDict
  /\ dic_match_scores_skip_adj = {}
  /\ fills = [column \in {"set_score", "stats_url", "to_skip"} |-> 0]
  /\ node = [t \in Slots |-> IdleNode]
  /\ data = {}

InitWith(w) == Matches(w) /\ Elsewhere

Init == InitWith("single")

InitRepeat == InitWith("repeat")

InitRows == InitWith("rows")

InitThreads == InitWith("threads")

\* lines 85-87 and the counting of lines 100-231 with the six counters kept on
\* the extractor instead of in the call: what call t writes, every call reads
MoveShared(t, g) ==
  /\ frames' = [u \in Slots |->
       IF u = t THEN g
       ELSE [frames[u] EXCEPT !.winner_sets_won = g.winner_sets_won,
                              !.loser_sets_won = g.loser_sets_won,
                              !.winner_games_won = g.winner_games_won,
                              !.loser_games_won = g.loser_games_won,
                              !.winner_tiebreaks_won = g.winner_tiebreaks_won,
                              !.loser_tiebreaks_won = g.loser_tiebreaks_won]]
  /\ UNCHANGED <<workload, calls, rows, phase, data, node, adjustments, elsewhere>>

\* the frame of caller t moves to g; nothing else changes
Move(t, g) ==
  /\ frames' = [frames EXCEPT ![t] = g]
  /\ UNCHANGED <<workload, calls, rows, phase, data, node, adjustments, elsewhere>>

\* MatchesBaseExtractor lines 37-38: target[str(match_id)] = str(value) for
\* every row fetched; the keys target held before stay
fetch_adjustments(target, fetched) ==
  [x \in DOMAIN target \cup DOMAIN fetched |->
     IF x \in DOMAIN fetched THEN fetched[x] ELSE target[x]]

\* MatchesATPExtractor lines 103-107 run over again: after the last load the
\* prologue starts anew
prologue_again(p) ==
  CASE p = "load" -> "load_stats_url"
    [] p = "load_stats_url" -> "load_skip"
    [] p = "load_skip" -> "load"

\* MatchesATPExtractor lines 103-107: the three loads in order, then the loop
\* over the tournaments
prologue(p) ==
  CASE p = "load" -> "load_stats_url"
    [] p = "load_stats_url" -> "load_skip"
    [] p = "load_skip" -> "parse"

\* one more call of _fetch_adjustments for the column
Fetched(column) == [fills EXCEPT ![column] = @ + 1]

\* MatchesATPExtractor line 103 and MatchesBaseExtractor lines 43-45: the
\* score overrides are read from the set_score column
FillScoresAdj ==
  /\ phase = "load"
  /\ \E fetched \in ScoreAdjOf(workload) :
       dic_match_scores_adj' = fetch_adjustments(dic_match_scores_adj, fetched)
  /\ fills' = Fetched("set_score")
  /\ phase' = prologue(phase)
  /\ UNCHANGED <<workload, frames, calls, rows, data, node,
                 dic_match_scores_stats_url_adj, dic_match_scores_skip_adj, elsewhere>>

\* MatchesATPExtractor line 104 and MatchesBaseExtractor lines 47-49: the
\* stats URL overrides are read from the stats_url column
FillStatsUrlAdj ==
  /\ phase = "load_stats_url"
  /\ \E fetched \in StatsUrlAdjOf(workload) :
       dic_match_scores_stats_url_adj' =
         fetch_adjustments(dic_match_scores_stats_url_adj, fetched)
  /\ fills' = Fetched("stats_url")
  /\ phase' = prologue(phase)
  /\ UNCHANGED <<workload, frames, calls, rows, data, node,
                 dic_match_scores_adj, dic_match_scores_skip_adj, elsewhere>>

\* MatchesATPExtractor line 105 and MatchesBaseExtractor lines 36-38 and 51-53:
\* before the first tournament is parsed, the keys of the skip mapping are
\* read from the adjustments table
FillAdjustments ==
  /\ phase = "load_skip"
  /\ dic_match_scores_skip_adj' = dic_match_scores_skip_adj \cup SkipRowsOf(workload)
  /\ fills' = Fetched("to_skip")
  /\ phase' = prologue(phase)
  /\ UNCHANGED <<workload, frames, calls, rows, data, node,
                 dic_match_scores_adj, dic_match_scores_stats_url_adj, elsewhere>>

\* MatchesBaseExtractor lines 34-41: a query of the adjustments table raises;
\* nothing catches it in _parse, so no tournament is parsed
FetchRaises ==
  /\ phase \in {"load", "load_stats_url", "load_skip"}
  /\ phase' = "failed"
  /\ UNCHANGED <<workload, frames, calls, rows, data, node, adjustments, elsewhere>>

\* line 311 with the test dropped: no match is skipped
never_skipped(dic, match_id) == FALSE

\* line 311: match_id in self._dic_match_scores_skip_adj
is_skipped(dic, match_id) == match_id \in dic

\* the loop of caller t is about to take a match node: the batch is loaded,
\* no call of parse_score is running, and the caller has nodes left
AtMatchNode(t) ==
  /\ phase = "parse"
  /\ t \in CallersOf(workload)
  /\ frames[t].pc = "idle"
  /\ TakeTurns(workload) => \A u \in Slots : frames[u].pc \in {"idle", "returned"}
  /\ calls[t] < MaxCalls

\* lines 311-312: the id of the node is a key of the skip mapping; the loop
\* goes on to the next node
Skip(t) ==
  /\ AtMatchNode(t)
  /\ \E id \in MatchIdsOf(workload) : is_skipped(dic_match_scores_skip_adj, id)
  /\ calls' = [calls EXCEPT ![t] = @ + 1]
  /\ UNCHANGED <<workload, frames, rows, phase, data, node, adjustments, elsewhere>>

\* lines 311 and 343: the id of the node is no key of the skip mapping and the
\* caller's loop reaches parse_score(match_score, match_id, code); no other
\* call is running
Call(t) ==
  /\ AtMatchNode(t)
  /\ \E score \in ScoresOf(workload), id \in MatchIdsOf(workload), code \in CodesOf(workload) :
       /\ ~is_skipped(dic_match_scores_skip_adj, id)
       /\ frames' = [frames EXCEPT ![t] = enter(@, score, id, code)]
  /\ calls' = [calls EXCEPT ![t] = @ + 1]
  /\ UNCHANGED <<workload, rows, phase, data, node, adjustments, elsewhere>>

\* str.replace("  ", " "): the occurrences of two spaces, taken left to right
\* without overlap, each become one space
RECURSIVE replace_two_spaces(_)
replace_two_spaces(s) ==
  IF Len(s) < 2 THEN s
  ELSE IF s[1] = " " /\ s[2] = " "
       THEN <<" ">> \o replace_two_spaces(SubSeq(s, 3, Len(s)))
  ELSE <<s[1]>> \o replace_two_spaces(Tail(s))

\* MatchesATPExtractor lines 339-340: while "  " in match_score, replace
RECURSIVE squeeze(_)
squeeze(match_score) ==
  IF Contains(match_score, <<" ", " ">>)
  THEN squeeze(replace_two_spaces(match_score))
  ELSE match_score

\* lines 315-336 with the test dropped: the page's text is taken whatever the
\* override mapping holds
never_adjusted(dic, match_id, scraped) == scraped

\* lines 315-336: the override of the match if the mapping has one, else the
\* text read off the page
adjusted(dic, match_id, scraped) ==
  IF match_id \in DOMAIN dic THEN dic[match_id] ELSE scraped

\* lines 311-343 of the loop over the match nodes: the node is not skipped, its
\* score text is the override or the page's text, squeezed, and parse_score is
\* entered with it
ParseMatch(t) ==
  /\ AtMatchNode(t)
  /\ \E n \in NodesOf(workload) :
       /\ ~is_skipped(dic_match_scores_skip_adj, n.match_id)
       /\ node' = [node EXCEPT ![t] = n]
       /\ frames' = [frames EXCEPT ![t] =
            enter(@, Some(squeeze(adjusted(dic_match_scores_adj, n.match_id, n.scraped))),
                  n.match_id, n.tournament_code)]
  /\ calls' = [calls EXCEPT ![t] = @ + 1]
  /\ UNCHANGED <<workload, rows, phase, data, adjustments, elsewhere>>

Classify(t) ==
  /\ frames[t].pc = "classify"
  /\ Move(t, classify(frames[t]))

SplitScore(t) ==
  /\ frames[t].pc = "loop_entry"
  /\ Move(t, split_score(frames[t]))

\* the loop is at a token of kind k
At(t, k) == HasToken(frames[t]) /\ TokenKind(set_score_of(frames[t])) = k

BracketTieSet(t) == At(t, "BracketTieSet") /\ Move(t, iterate(frames[t]))

TwoChar(t) == At(t, "TwoChar") /\ Move(t, iterate(frames[t]))

ThreeChar(t) == At(t, "ThreeChar") /\ Move(t, iterate(frames[t]))

FourChar(t) == At(t, "FourChar") /\ Move(t, iterate(frames[t]))

LongTiebreak(t) == At(t, "LongTiebreak") /\ Move(t, iterate(frames[t]))

Unhandled(t) == At(t, "Unhandled") /\ Move(t, iterate(frames[t]))

Validate(t) ==
  /\ frames[t].pc = "loop"
  /\ ~HasToken(frames[t])
  /\ Move(t, validate(frames[t]))

Except(t) ==
  /\ frames[t].pc = "except"
  /\ Move(t, handler(frames[t]))

\* MatchesATPExtractor lines 43-49: the columns of INSERT_STR in the order of
\* their bind positions :1 .. :20
INSERT_STR ==
  << "id", "tournament_id", "stadie_id", "match_order", "winner_code", "winner_url",
     "loser_code", "loser_url", "winner_seed", "loser_seed", "score", "stats_url",
     "match_ret", "winner_sets_won", "loser_sets_won", "winner_games_won",
     "loser_games_won", "winner_tiebreaks_won", "loser_tiebreaks_won",
     "match_duration" >>

ATP_URL_PREFIX == <<"a", "t", "p", ":">>

\* lines 346-354: the stats URL override of the match if the mapping has one,
\* else the prefixed href of the stats link, else ''
match_stats_url(dic, match_id, stats_href) ==
  IF match_id \in DOMAIN dic THEN dic[match_id]
  ELSE IF stats_href # None THEN ATP_URL_PREFIX \o Strip(stats_href[1])
  ELSE <<>>

\* str.split(sep) for a separator of one character
RECURSIVE split_on(_, _)
split_on(s, sep) ==
  IF \E i \in 1..Len(s) : s[i] = sep
  THEN LET i == CHOOSE k \in 1..Len(s) : s[k] = sep /\ \A j \in 1..(k - 1) : s[j] # sep
       IN <<SubSeq(s, 1, i - 1)>> \o split_on(SubSeq(s, i + 1, Len(s)), sep)
  ELSE <<s>>

\* lines 360-371: the minutes and seconds of the duration text as one number,
\* None when there is no text or it is not two numbers around a colon
match_duration(dur_text) ==
  LET parts == split_on(Strip(dur_text), ":")
  IN IF Strip(dur_text) = <<>> THEN None
     ELSE IF Len(parts) = 2 /\ ParseInt(Strip(parts[1])) # None
                            /\ ParseInt(Strip(parts[2])) # None
          THEN Some(60 * ParseInt(Strip(parts[1]))[1] + ParseInt(Strip(parts[2]))[1])
     ELSE None

\* lines 78-80 and 241-246: the names of the values parse_score returns, by
\* position
ScoreArrayNames ==
  << "match_ret", "winner_sets_won", "loser_sets_won",
     "winner_games_won", "loser_games_won",
     "winner_tiebreaks_won", "loser_tiebreaks_won" >>

\* the list parse_score returned, each value under the name of its position
Named(score_array) ==
  [i \in 1..Len(score_array) |->
     <<IF i <= Len(ScoreArrayNames) THEN ScoreArrayNames[i] ELSE "", score_array[i]>>]

\* the fields of a row the loop reads off the page and the model does not follow
Unfollowed == <<>>

\* lines 374-391 with the score list ahead of the score text and the stats URL
row_score_array_first(f, n, dic) ==
  << <<"match_id", f.match_id>>,
     <<"tournament_id", Unfollowed>>,
     <<"stadie_id", Unfollowed>>,
     <<"match_order", <<>>>>,
     <<"winner_code", Unfollowed>>,
     <<"winner_url", Unfollowed>>,
     <<"loser_code", Unfollowed>>,
     <<"loser_url", Unfollowed>>,
     <<"winner_seed", Unfollowed>>,
     <<"loser_seed", Unfollowed>> >>
  \o Named(f.score_array)
  \o << <<"match_score", f.match_score>>,
        <<"match_stats_url", match_stats_url(dic, f.match_id, n.stats_href)>> >>
  \o << <<"match_duration", match_duration(n.dur_text)>> >>

\* lines 374-391: the row of the match, each value under the name of the
\* variable the list is built from
row(f, n, dic) ==
  << <<"match_id", f.match_id>>,
     <<"tournament_id", Unfollowed>>,
     <<"stadie_id", Unfollowed>>,
     <<"match_order", <<>>>>,
     <<"winner_code", Unfollowed>>,
     <<"winner_url", Unfollowed>>,
     <<"loser_code", Unfollowed>>,
     <<"loser_url", Unfollowed>>,
     <<"winner_seed", Unfollowed>>,
     <<"loser_seed", Unfollowed>>,
     <<"match_score", f.match_score>>,
     <<"match_stats_url", match_stats_url(dic, f.match_id, n.stats_href)>> >>
  \o Named(f.score_array)
  \o << <<"match_duration", match_duration(n.dur_text)>> >>

\* what data keeps of a row: the whole row in the rows workload, the match id
\* alone in the others
Kept(w, r) == IF w = "rows" THEN r ELSE SubSeq(r, 1, 1)

\* lines 346-391: the caller works out the stats URL and the duration, appends
\* the row of the match and goes on to the next node
AppendRow(t) ==
  /\ frames[t].pc = "returned"
  /\ frames' = [frames EXCEPT ![t] = pop_frame(@)]
  /\ node' = [node EXCEPT ![t] = IdleNode]
  /\ rows' = rows + 1
  /\ data' = data \cup
       { Kept(workload, row(frames[t], node[t], dic_match_scores_stats_url_adj)) }
  /\ UNCHANGED <<workload, calls, phase, adjustments, elsewhere>>

\* the steps of a call of parse_score
ParseScoreStep(t) ==
  \/ Classify(t)
  \/ SplitScore(t)
  \/ BracketTieSet(t)
  \/ TwoChar(t)
  \/ ThreeChar(t)
  \/ FourChar(t)
  \/ LongTiebreak(t)
  \/ Unhandled(t)
  \/ Validate(t)
  \/ Except(t)

\* MatchesATPExtractor lines 103-105
Prologue ==
  \/ FillScoresAdj
  \/ FillStatsUrlAdj
  \/ FillAdjustments
  \/ FetchRaises

Next ==
  \/ Prologue
  \/ \E t \in Slots :
       \/ Skip(t)
       \/ Call(t)
       \/ ParseScoreStep(t)
       \/ AppendRow(t)

\* the matches extractor over its results pages
NextRows ==
  \/ Prologue
  \/ \E t \in Slots :
       \/ Skip(t)
       \/ ParseMatch(t)
       \/ ParseScoreStep(t)
       \/ AppendRow(t)

Spec == Init /\ [][Next]_vars

SpecRepeat == InitRepeat /\ [][Next]_vars

SpecRows == InitRows /\ [][NextRows]_vars

\* two threads that call parse_score on one extractor
SpecThreads == InitThreads /\ [][Next]_vars


(***************************************************************************)
(* BaseExtractor.extract: one batch                                        *)
(***************************************************************************)
\* base_extractor.py lines 337-345: the calls of the try block in order
Steps ==
  << "request_url_by_chrome", "parse", "truncate_table", "store_in_csv",
     "load_to_stg", "pre_process_data", "process_data", "post_process_data",
     "finish_batch_successfully" >>

StepIndex(name) == CHOOSE i \in 1..Len(Steps) : Steps[i] = name

\* the extractors a batch runs for: with or without a target table, an insert
\* statement, a CSV file, stored procedures
Extractors ==
  [ TABLE_NAME : BOOLEAN, INSERT_STR : BOOLEAN, CSVFILE_NAME : BOOLEAN,
    PROCESS_PROC_NAMES : {0, 1} ]

\* base_extractor.py lines 30-53 and 262: the extractor is built and holds an
\* open connection; extract is about to run
NewBatch(e) ==
  [ pc |-> Steps[1], extractor |-> e, ran |-> <<>>, exc |-> None, raised |-> None,
    con |-> "open", connects |-> 1, truncated |-> FALSE, stored |-> FALSE,
    loaded |-> FALSE, called |-> 0, reports |-> <<>>, errors |-> 0 ]

\* the step the batch is at starts
begin(b) == [b EXCEPT !.ran = Append(@, b.pc)]

\* the step returns: on to the next line of the try block, the else of which
\* is the finally
returns(b) ==
  [b EXCEPT !.pc = IF StepIndex(b.pc) < Len(Steps) THEN Steps[StepIndex(b.pc) + 1]
                   ELSE "finally"]

\* every step in a try of its own that swallows the exception: the batch goes
\* on with the next step
raises_and_goes_on(b, exc) == [returns(b) EXCEPT !.raised = Some(b.pc)]

\* an exception leaves the step: the rest of the try block is left out
raises(b, exc) == [b EXCEPT !.pc = "except", !.exc = Some(exc), !.raised = Some(b.pc)]

\* base_extractor.py lines 260-263: a new connection replaces self.con
connect_to_db(b) == [b EXCEPT !.con = "open", !.connects = @ + 1]

\* lines 204-254: the request returns the page or None; it lets no exception out
request_url_by_chrome(b) == returns(begin(b))

\* lines 309-311: the subclass's parse, which may raise
parse(b, outcome) ==
  IF outcome = "raises" THEN raises(begin(b), "Exception") ELSE returns(begin(b))

\* lines 265-273: connect, truncate the target table if there is one, close
\* the cursor; when the connect raises, cur is unbound in the finally
truncate_table(b, outcome) ==
  IF outcome = "connect_raises" THEN raises(begin(b), "UnboundLocalError")
  ELSE IF b.extractor.TABLE_NAME /\ outcome = "raises"
  THEN raises(connect_to_db(begin(b)), "DatabaseError")
  ELSE returns([connect_to_db(begin(b)) EXCEPT !.truncated = b.extractor.TABLE_NAME])

\* lines 275-280: write the rows to the CSV file if there is one
store_in_csv(b, outcome) ==
  IF b.extractor.CSVFILE_NAME /\ outcome = "raises" THEN raises(begin(b), "OSError")
  ELSE returns([begin(b) EXCEPT !.stored = b.extractor.CSVFILE_NAME])

\* lines 293-303: connect, insert the rows if there is a statement and commit
load_to_stg(b, outcome) ==
  IF outcome = "connect_raises" THEN raises(begin(b), "UnboundLocalError")
  ELSE IF b.extractor.INSERT_STR /\ outcome = "raises"
  THEN raises(connect_to_db(begin(b)), "DatabaseError")
  ELSE returns([connect_to_db(begin(b)) EXCEPT !.loaded = b.extractor.INSERT_STR])

\* lines 313-319: the hooks of the subclass
hook(b, outcome) ==
  IF outcome = "raises" THEN raises(begin(b), "Exception") ELSE returns(begin(b))

\* lines 282-291: connect, call the stored procedures in order
process_data(b, outcome) ==
  IF outcome = "connect_raises" THEN raises(begin(b), "UnboundLocalError")
  ELSE IF b.extractor.PROCESS_PROC_NAMES > 0 /\ outcome = "raises"
  THEN raises(connect_to_db(begin(b)), "DatabaseError")
  ELSE returns([connect_to_db(begin(b)) EXCEPT !.called = b.extractor.PROCESS_PROC_NAMES])

\* line 345
finish_batch_successfully(b) ==
  returns([begin(b) EXCEPT !.reports = Append(@, "successfully")])

\* line 346 catching database errors alone
catches_database_error(exc) == exc = "DatabaseError"

\* line 346: except Exception
catches(exc) ==
  exc \in {"Exception", "UnboundLocalError", "DatabaseError", "OSError"}

\* lines 346-348: the handler logs the error and finishes the batch with
\* errors; an exception it does not catch goes on through the finally
handle(b) ==
  IF catches(b.exc[1])
  THEN [b EXCEPT !.pc = "finally", !.exc = None, !.errors = @ + 1,
                 !.reports = Append(@, "with_errors")]
  ELSE [b EXCEPT !.pc = "finally"]

\* lines 349-350: the connection is closed; a pending exception leaves extract
finally(b) ==
  [b EXCEPT !.con = "closed", !.pc = IF b.exc = None THEN "done" ELSE "propagated"]

Outcomes == {"returns", "raises", "connect_raises"}

InitExtract ==
  /\ Matches("none")
  /\ batch \in { NewBatch(e) : e \in Extractors }
  /\ chrome = <<>>
  /\ runner = <<>>
  /\ rankings = <<>>
  /\ updater = <<>>

\* the batch becomes b; nothing else changes
Batch(b) ==
  /\ batch' = b
  /\ UNCHANGED <<workload, frames, calls, rows, phase, data, node, adjustments,
                 chrome, runner, rankings, updater>>

AtStep(name) == batch # <<>> /\ batch.pc = name

RequestUrl == AtStep("request_url_by_chrome") /\ Batch(request_url_by_chrome(batch))

ParseResponse ==
  AtStep("parse") /\ \E outcome \in Outcomes : Batch(parse(batch, outcome))

TruncateTable ==
  AtStep("truncate_table") /\ \E outcome \in Outcomes : Batch(truncate_table(batch, outcome))

StoreInCsv ==
  AtStep("store_in_csv") /\ \E outcome \in Outcomes : Batch(store_in_csv(batch, outcome))

LoadToStg ==
  AtStep("load_to_stg") /\ \E outcome \in Outcomes : Batch(load_to_stg(batch, outcome))

PreProcessData ==
  AtStep("pre_process_data") /\ \E outcome \in Outcomes : Batch(hook(batch, outcome))

ProcessData ==
  AtStep("process_data") /\ \E outcome \in Outcomes : Batch(process_data(batch, outcome))

PostProcessData ==
  AtStep("post_process_data") /\ \E outcome \in Outcomes : Batch(hook(batch, outcome))

FinishBatchSuccessfully ==
  AtStep("finish_batch_successfully") /\ Batch(finish_batch_successfully(batch))

HandleException == AtStep("except") /\ Batch(handle(batch))

CloseConnection == AtStep("finally") /\ Batch(finally(batch))

NextExtract ==
  \/ RequestUrl
  \/ ParseResponse
  \/ TruncateTable
  \/ StoreInCsv
  \/ LoadToStg
  \/ PreProcessData
  \/ ProcessData
  \/ PostProcessData
  \/ FinishBatchSuccessfully
  \/ HandleException
  \/ CloseConnection

SpecExtract == InitExtract /\ [][NextExtract]_vars


(***************************************************************************)
(* BaseExtractor._request_url_by_chrome                                    *)
(***************************************************************************)
\* base_extractor.py line 45: self._max_driver_uses
max_driver_uses == 50

\* the most retries a caller asks for; line 204 makes 3 the default
MaxRetries == 3

\* lines 42-45: no driver yet and no use of one; no request is running
NewChrome ==
  [ pc |-> "idle", driver |-> None, driver_use_count |-> 0,
    max_retries |-> 0, attempt |-> 0, tries |-> <<>>, result |-> None ]

\* lines 204-213: a request starts
request(c, max_retries) ==
  [c EXCEPT !.pc = "while", !.max_retries = max_retries, !.attempt = 0,
            !.tries = <<>>, !.result = None]

\* line 214 reading attempt <= max_retries
may_try_once_more(attempt, max_retries) == attempt <= max_retries

\* line 214: while attempt < max_retries
may_try(attempt, max_retries) == attempt < max_retries

\* lines 214 and 253-254: another attempt, or None after the last one
loop_test(c) ==
  IF may_try(c.attempt, c.max_retries) THEN [c EXCEPT !.pc = "try"]
  ELSE [c EXCEPT !.pc = "returned", !.result = None]

\* lines 217-221: there is no driver, or it has been used up
needs_restart(c) == c.driver = None \/ c.driver_use_count >= max_driver_uses

\* lines 158-202 and 222-230: the old driver is quit and dropped, and a new
\* one is made with a use count of 0; making it may raise before there is a
\* driver, or after line 199 and before the count is reset at line 201
restart_driver(c, outcome) ==
  CASE outcome = "raises" ->
         [c EXCEPT !.driver = None, !.pc = "except", !.tries = Append(@, "raised")]
    [] outcome = "raises_late" ->
         [c EXCEPT !.driver = Some("driver"), !.pc = "except",
                   !.tries = Append(@, "raised")]
    [] OTHER ->
         [c EXCEPT !.driver = Some("driver"), !.driver_use_count = 0, !.pc = "get"]

\* lines 233-246: the navigation, the wait and the read of the page may raise;
\* else the use is counted and the page returned, or None for a Cloudflare
\* challenge
navigate(c, outcome) ==
  CASE outcome \in {"raises", "raises_late"} ->
         [c EXCEPT !.pc = "except", !.tries = Append(@, "raised")]
    [] outcome = "challenge" ->
         [c EXCEPT !.driver_use_count = @ + 1, !.pc = "returned",
                   !.tries = Append(@, "challenge"), !.result = None]
    [] OTHER ->
         [c EXCEPT !.driver_use_count = @ + 1, !.pc = "returned",
                   !.tries = Append(@, "content"), !.result = Some("content")]

\* lines 248-251: the attempt failed
failed_attempt(c) == [c EXCEPT !.attempt = @ + 1, !.pc = "while"]

InitChrome ==
  /\ Matches("none")
  /\ chrome = NewChrome
  /\ batch = <<>>
  /\ runner = <<>>
  /\ rankings = <<>>
  /\ updater = <<>>

\* the request moves to c; nothing else changes
Chrome(c) ==
  /\ chrome' = c
  /\ UNCHANGED <<workload, frames, calls, rows, phase, data, node, adjustments,
                 batch, runner, rankings, updater>>

Requesting(at) == chrome # <<>> /\ chrome.pc = at

\* a caller asks for a page
RequestUrlByChrome ==
  /\ Requesting("idle")
  /\ \E max_retries \in 0..MaxRetries : Chrome(request(chrome, max_retries))

LoopTest == Requesting("while") /\ Chrome(loop_test(chrome))

RestartDriver ==
  /\ Requesting("try")
  /\ needs_restart(chrome)
  /\ \E outcome \in {"returns", "raises", "raises_late"} :
       Chrome(restart_driver(chrome, outcome))

KeepDriver ==
  /\ Requesting("try")
  /\ ~needs_restart(chrome)
  /\ Chrome([chrome EXCEPT !.pc = "get"])

Navigate ==
  /\ Requesting("get")
  /\ \E outcome \in {"returns", "raises", "challenge"} : Chrome(navigate(chrome, outcome))

FailedAttempt == Requesting("except") /\ Chrome(failed_attempt(chrome))

\* the caller has the result
Return == Requesting("returned") /\ Chrome([chrome EXCEPT !.pc = "idle"])

NextChrome ==
  \/ RequestUrlByChrome
  \/ LoopTest
  \/ RestartDriver
  \/ KeepDriver
  \/ Navigate
  \/ FailedAttempt
  \/ Return

SpecChrome == InitChrome /\ [][NextChrome]_vars

\* every statement of the method ends: the navigation and the wait have
\* timeouts, so a request that has started goes on to its next step
FairChrome == SpecChrome /\ WF_vars(NextChrome)


(***************************************************************************)
(* runner.py: main and run_component                                       *)
(***************************************************************************)
\* runner.py lines 180-183: the components of the 'all' command in order
Components == <<"TOURNAMENTS", "PLAYERS", "MATCHES", "STATS">>

\* lines 161-183: the components a command runs
plan(cmd) ==
  CASE cmd = "tournaments" -> <<"TOURNAMENTS">>
    [] cmd = "players" -> <<"PLAYERS">>
    [] cmd = "matches" -> <<"MATCHES">>
    [] cmd = "stats" -> <<"STATS">>
    [] cmd = "all" -> Components

\* line 108: the method names in the order they are tried
MethodNames == <<"load", "run", "extract", "execute">>

\* lines 50-65: what the import of an extractor gives: None when it fails,
\* else a class, here by the runnable methods its instances have
Classes ==
  { None, Some({"extract"}), Some({"run", "extract", "execute"}), Some({}) }

\* lines 108-109: the methods the instance has, in the order they are tried
every_available(methods) == SelectSeq(MethodNames, LAMBDA m : m \in methods)

\* lines 108-112: the first method the instance has is called, and no other
first_available(methods) ==
  IF every_available(methods) = <<>> THEN <<>>
  ELSE <<Head(every_available(methods))>>

\* lines 94-126: one component is run; False when there is no class, when the
\* instance cannot be built, when it has no runnable method, or when the
\* method raises
run_component(tag, cls, outcome) ==
  IF cls = None THEN [tag |-> tag, called |-> <<>>, returned |-> FALSE]
  ELSE IF outcome = "build_raises"
  THEN [tag |-> tag, called |-> <<>>, returned |-> FALSE]
  ELSE IF first_available(cls[1]) = <<>>
  THEN [tag |-> tag, called |-> <<>>, returned |-> FALSE]
  ELSE [tag |-> tag, called |-> first_available(cls[1]),
        returned |-> outcome # "raises"]

\* the result overwrites ok_all: the status tells of the last component alone
last_result(ok_all, result) == result

\* lines 163-183: ok_all &= run_component(...)
and_result(ok_all, result) == ok_all /\ result

\* lines 152-159: a command line and the classes the imports gave
NewRunner(cmd, classes) ==
  [ cmd |-> cmd, classes |-> classes, ran |-> <<>>, ok_all |-> TRUE,
    status |-> None ]

Commands == {"tournaments", "players", "matches", "stats", "all"}

InitRunner ==
  /\ Matches("none")
  /\ runner \in { NewRunner(cmd, classes) :
                   cmd \in Commands,
                   classes \in [{"TOURNAMENTS", "PLAYERS", "MATCHES", "STATS"} -> Classes] }
  /\ batch = <<>>
  /\ chrome = <<>>
  /\ rankings = <<>>
  /\ updater = <<>>

Runner(r) ==
  /\ runner' = r
  /\ UNCHANGED <<workload, frames, calls, rows, phase, data, node, adjustments,
                 batch, chrome, rankings, updater>>

\* lines 163-183: the next component of the command is run and its result
\* taken into ok_all
RunComponent ==
  /\ runner # <<>>
  /\ runner.status = None
  /\ Len(runner.ran) < Len(plan(runner.cmd))
  /\ \E outcome \in {"returns", "raises", "build_raises"} :
       LET tag == plan(runner.cmd)[Len(runner.ran) + 1]
           done == run_component(tag, runner.classes[tag], outcome)
       IN Runner([runner EXCEPT !.ran = Append(@, done),
                                !.ok_all = and_result(@, done.returned)])

\* lines 185-191: the process exits with 0 if ok_all, else with 1
Exit ==
  /\ runner # <<>>
  /\ runner.status = None
  /\ Len(runner.ran) = Len(plan(runner.cmd))
  /\ Runner([runner EXCEPT !.status = Some(IF runner.ok_all THEN 0 ELSE 1)])

NextRunner == RunComponent \/ Exit

SpecRunner == InitRunner /\ [][NextRunner]_vars


(***************************************************************************)
(* Ranking_scrapping.py: main                                              *)
(***************************************************************************)
\* the most dates fechas.txt holds
MaxDates == 4

\* Ranking_scrapping.py lines 115-120: the dates are read and the count of
\* consecutive timeouts starts at 0
NewRankings(n) ==
  [ fechas |-> n, done |-> 0, consecutive_timeouts |-> 0, outcomes |-> <<>>,
    saved |-> {}, pc |-> IF n = 0 THEN "returned" ELSE "for" ]

\* the date the loop is at
fecha(r) == r.done + 1

\* lines 123 and 193: on to the next date, or out of the loop after the last
next_date(r) ==
  [r EXCEPT !.done = @ + 1, !.pc = IF r.done + 1 < r.fechas THEN "for" ELSE "completed"]

\* lines 155-156 and 180-191: the page loaded; the count is reset, the HTML
\* saved and the browser closed
loaded(r) ==
  next_date([r EXCEPT !.consecutive_timeouts = 0,
                      !.outcomes = Append(@, "loaded"),
                      !.saved = @ \cup {fecha(r)}])

\* lines 157-169: the navigation timed out; at the second count the loop is
\* left, else it goes on with the next date
timed_out(r) ==
  LET r1 == [r EXCEPT !.consecutive_timeouts = @ + 1,
                      !.outcomes = Append(@, "timeout")]
  IN IF r1.consecutive_timeouts >= 2
     THEN [r1 EXCEPT !.done = @ + 1, !.pc = "stopped"]
     ELSE next_date(r1)

\* lines 170-177: the navigation failed otherwise; the loop goes on with the
\* next date and the count stays as it is
failed(r) == next_date([r EXCEPT !.outcomes = Append(@, "error")])

\* lines 131-152: the launch of the browser raises; nothing catches it
launch_raises(r) ==
  [r EXCEPT !.done = @ + 1, !.outcomes = Append(@, "raised"), !.pc = "raised"]

InitRankings ==
  /\ Matches("none")
  /\ rankings \in { NewRankings(n) : n \in 0..MaxDates }
  /\ batch = <<>>
  /\ chrome = <<>>
  /\ runner = <<>>
  /\ updater = <<>>

Rankings(r) ==
  /\ rankings' = r
  /\ UNCHANGED <<workload, frames, calls, rows, phase, data, node, adjustments,
                 batch, chrome, runner, updater>>

AtDate == rankings # <<>> /\ rankings.pc = "for"

PageLoaded == AtDate /\ Rankings(loaded(rankings))

PageTimedOut == AtDate /\ Rankings(timed_out(rankings))

PageFailed == AtDate /\ Rankings(failed(rankings))

LaunchRaises == AtDate /\ Rankings(launch_raises(rankings))

NextRankings == PageLoaded \/ PageTimedOut \/ PageFailed \/ LaunchRaises

SpecRankings == InitRankings /\ [][NextRankings]_vars


(***************************************************************************)
(* MatchesATPScoreUpdater.py: _check_match_score                           *)
(***************************************************************************)
\* the most matches the list of the updater holds
MaxMatches == 3

\* MatchesATPScoreUpdater.py lines 41-49: the names the MERGE statement gives
\* its bind positions :1 .. :9
MERGE_BINDS ==
  << "id", "score", "match_ret", "winner_sets_won", "winner_games_won",
     "winner_tiebreaks_won", "loser_sets_won", "loser_games_won",
     "loser_tiebreaks_won" >>

\* the methods an updater has: those of MatchesBaseExtractor.py lines 16-313
\* and base_extractor.py lines 30-350 and its own
UpdaterMethods ==
  { "_init", "_fetch_adjustments", "_fill_dic_match_scores_adj",
    "_fill_dic_match_scores_stats_url_adj", "_fill_dic_match_scores_skip_adj",
    "parse_score", "adjust_score", "get_match_ret", "normalize_tie_set_score",
    "_parse", "_fill_matches_list", "_check_match_score",
    "__init__", "get_script_name", "remap_indoor_outdoor_name", "remap_surface_name",
    "remap_stadie_code", "remap_country_name", "remap_country_name_by_location",
    "remap_country_code", "remap_player_atp_url", "normalize_date_str",
    "parse_tournament_dates", "_init_driver", "_request_url_by_chrome", "_connect_to_db", "_truncate_table",
    "_store_in_csv", "_process_data", "_load_to_stg", "_post_process_data",
    "_pre_process_data", "extract" }

\* lines 100-106: the rows of vw_matches: id, tournament code, score text
MatchTuples ==
  { <<"m1", Code250, Some(<<"6", "4", " ", "7", "5">>)>>,
    <<"m2", Code250, Some(<<"W", "/", "O">>)>>,
    <<"m2", NextGen, Some(<<"4", "3", " ", "4", "3">>)>>,
    <<"m3", Code250, Some(<<"6", "a">>)>> }

\* lines 85-86: the list of matches and the score overrides are loaded
NewUpdater(matches_list, dic) ==
  [ matches_list |-> matches_list, dic_match_scores_adj |-> dic, done |-> 0,
    data |-> <<>>, log |-> <<>> ]

\* line 136: row = [match_id, match_score] + scores_arr
merge_row(match_id, match_score, scores_arr) ==
  << <<"match_id", match_id>>, <<"match_score", match_score>> >> \o Named(scores_arr)

\* lines 118-140: the override is applied; self._parse_score is looked up,
\* which raises AttributeError on an instance without such a method; else the
\* score is parsed and the row appended unless the list is empty
check_match_score(u, tpl) ==
  LET match_id == tpl[1]
      tournament_code == tpl[2]
      match_score ==
        IF match_id \in DOMAIN u.dic_match_scores_adj
        THEN Some(u.dic_match_scores_adj[match_id]) ELSE tpl[3]
      warned == IF match_id \in DOMAIN u.dic_match_scores_adj
                THEN [u EXCEPT !.log = Append(@, <<"warning", "Adjustment applied">>)]
                ELSE u
  IN IF "_parse_score" \notin UpdaterMethods
     THEN [warned EXCEPT !.log = Append(@, <<"error", "error parsing score">>)]
     ELSE LET scores_arr == parse_score(match_score, match_id, tournament_code)
          IN IF scores_arr = <<>>
             THEN [warned EXCEPT !.log = Append(@, <<"warning", "could not parse score">>)]
             ELSE [warned EXCEPT
                     !.data = Append(@, merge_row(match_id, match_score, scores_arr))]

InitUpdater ==
  /\ Matches("none")
  /\ updater \in
       { NewUpdater(matches_list, dic) :
           matches_list \in UNION { [1..n -> MatchTuples] : n \in 0..MaxMatches },
           dic \in ScoreAdjOf("rows") }
  /\ batch = <<>>
  /\ chrome = <<>>
  /\ runner = <<>>
  /\ rankings = <<>>

\* lines 88-89: the next match of the list is checked
CheckMatchScore ==
  /\ updater # <<>>
  /\ updater.done < Len(updater.matches_list)
  /\ updater' = [check_match_score(updater, updater.matches_list[updater.done + 1])
                   EXCEPT !.done = @ + 1]
  /\ UNCHANGED <<workload, frames, calls, rows, phase, data, node, adjustments,
                 batch, chrome, runner, rankings>>

NextUpdater == CheckMatchScore

SpecUpdater == InitUpdater /\ [][NextUpdater]_vars


(***************************************************************************)
(* The claims                                                              *)
(***************************************************************************)
Returned(t) == frames[t].pc = "returned"

LastLog(f) == f.log[Len(f.log)]

\* the frame of caller t has just run one iteration of the loop on a token
Decoded(t) ==
  /\ HasToken(frames[t])
  /\ frames'[t] # frames[t]

Remove(seq, i) == SubSeq(seq, 1, i - 1) \o SubSeq(seq, i + 1, Len(seq))

\* C1: parse_score never raises to its caller, whatever match_score is (None
\* and tokens with non-digit characters included): no exception leaves the
\* call, every call that ends returns a list of 7 fields, and a fault inside
\* is caught, logged as an Error and answered with the all-None list, which
\* the caller's loop then stores as it goes on to the next match.
C1_NeverRaises ==
  \A t \in Slots :
    /\ frames[t].pc \in {"idle", "classify", "loop_entry", "loop", "except", "returned"}
    /\ frames[t].pc = "except" => frames[t].exc # None
    /\ Returned(t) =>
         /\ Len(frames[t].score_array) = 7
         /\ frames[t].exc # None =>
              /\ frames[t].score_array = AllNone
              /\ LastLog(frames[t]) = <<"error", "parse_score error">>

\* a call with match_score = None has returned the all-None list, after an
\* earlier match of the same loop
C1_Witness ==
  /\ rows = 1
  /\ Returned(1)
  /\ frames[1].match_score = None
  /\ frames[1].exc = Some("AttributeError")
  /\ frames[1].score_array = AllNone

\* a token that fails to decode, as C2 lists them
FailsToDecode(tok) ==
  /\ ~IsBracket(tok)
  /\ \/ Len(tok) = 2 /\ (tok[1] = tok[2] \/ ~AllDigits(tok))
     \/ Len(tok) = 3 /\ tok \notin { <<"8", "1", "0">>, <<"9", "1", "1">>,
                                     <<"1", "0", "8">>, <<"1", "0", "6">>,
                                     <<"1", "0", "7">>, <<"1", "1", "9">> }
     \/ Len(tok) \in {1, 5, 6}
     \/ Len(tok) = 4 /\ (SubSeq(tok, 1, 2) = SubSeq(tok, 3, 4) \/ ~AllDigits(tok))
     \/ Len(tok) >= 7 /\ (SubSeq(tok, 1, 2) = SubSeq(tok, 3, 4) \/ ~AllDigits(tok))

\* C2: for a Played score text, a token that fails to decode changes no
\* counter and does not stop the tokens after it: the list returned is the
\* list returned for the same text without that token.
C2_BadTokenSkipped ==
  \A t \in Slots :
    (Returned(t) /\ frames[t].match_score # None /\ frames[t].match_ret = None) =>
      LET toks == Split(frames[t].match_score[1])
      IN \A i \in 1..Len(toks) :
           FailsToDecode(toks[i]) =>
             frames[t].score_array =
               parse_score(Some(Join(Remove(toks, i), <<" ">>)),
                           frames[t].match_id, frames[t].tournament_code)

\* C3: a result with an outcome flag has its six numeric fields None, and the
\* call decoded no token: it never split the text, entered the loop, touched a
\* counter or logged a diagnostic.
C3_FlagShortCircuits ==
  \A t \in Slots :
    (Returned(t) /\ frames[t].score_array[1] # None) =>
      /\ frames[t].score_array[1] \in {Some(FlagWO), Some(FlagRET), Some(FlagWEA)}
      /\ \A i \in 2..7 : frames[t].score_array[i] = None
      /\ frames[t].match_score_array = <<>>
      /\ frames[t].pos = 0
      /\ frames[t].log = <<>>
      /\ frames[t].winner_sets_won = 0 /\ frames[t].loser_sets_won = 0
      /\ frames[t].winner_games_won = 0 /\ frames[t].loser_games_won = 0
      /\ frames[t].winner_tiebreaks_won = 0 /\ frames[t].loser_tiebreaks_won = 0

\* '64 RET' is answered with the (RET) flag and no numbers
C3_Witness ==
  /\ Returned(1)
  /\ frames[1].match_score = Some(<<"6", "4", " ", "R", "E", "T">>)
  /\ frames[1].score_array = <<Some(FlagRET), None, None, None, None, None, None>>

\* C4: for every score text, a result whose outcome flag is None has all of
\* its six numeric fields set.
C4_PlayedHasNumbers ==
  \A t \in Slots :
    (Returned(t) /\ frames[t].match_score # None /\ frames[t].score_array[1] = None) =>
      \A i \in 2..7 : frames[t].score_array[i] # None

\* C5: in a Played result with set counters, winnerSetsWon + loserSetsWon is
\* at most the number of whitespace-separated tokens of the text; inside the
\* loop the two set counters together never exceed the tokens gone through.
C5_SetsAtMostTokens ==
  \A t \in Slots :
    /\ frames[t].pc = "loop" =>
         frames[t].winner_sets_won + frames[t].loser_sets_won <= frames[t].pos
    /\ (Returned(t) /\ frames[t].match_score # None
          /\ frames[t].score_array[1] = None /\ frames[t].score_array[2] # None) =>
         frames[t].score_array[2][1] + frames[t].score_array[3][1]
           <= Len(Split(frames[t].match_score[1]))

\* a single long tiebreak token that gives its one set to the loser
C5_Witness ==
  /\ Returned(1)
  /\ frames[1].match_score # None
  /\ Split(frames[1].match_score[1]) = << <<"6", "7", "7", "6", "1", "2", "3">> >>
  /\ frames[1].score_array[2] = Some(0)
  /\ frames[1].score_array[3] = Some(1)


HasAny(up, pats) == \E p \in pats : Contains(up, p)

\* the classifier as C6 words it: three rules in priority order over the
\* upper-cased text, `retired` being the markers of the third rule
RuleOrder(text, retired) ==
  LET up == Upper(text)
  IN IF HasAny(up, {StrWO, StrINV, StrWALKOVER}) THEN Some(FlagWO)
     ELSE IF Contains(up, StrWEA) THEN Some(FlagWEA)
     ELSE IF HasAny(up, retired) THEN Some(FlagRET)
     ELSE None

\* the call of caller t has classified a score text
Classified(t) ==
  /\ frames[t].pc \in {"loop_entry", "loop", "except", "returned"}
  /\ frames[t].match_score # None

\* C6 as stated: W/O, INV or WALKOVER give (W/O); otherwise WEA gives (WEA);
\* otherwise RE, DEF, UNP or UNFINISHED give (RET); otherwise None.
C6_AsClaimed ==
  \A t \in Slots :
    Classified(t) =>
      frames[t].match_ret =
        RuleOrder(frames[t].match_score[1], {StrRE, StrDEF, StrUNP, StrUNFINISHED})

\* C6 as amended: the third rule also fires on PLAYED AND ABANDONED.
C6_PriorityOrder ==
  \A t \in Slots :
    Classified(t) =>
      frames[t].match_ret =
        RuleOrder(frames[t].match_score[1],
                  {StrRE, StrDEF, StrUNP, StrUNFINISHED, StrPLAYED_AND_ABANDONED})

\* a text with a walkover marker and a retirement marker is a Walkover
C6_Witness ==
  /\ Returned(1)
  /\ frames[1].match_score = Some(<<"R", "E", "T", " ", "W", "/", "O">>)
  /\ frames[1].score_array[1] = Some(FlagWO)

SameArguments(f, g) ==
  /\ f.match_score = g.match_score
  /\ f.match_id = g.match_id
  /\ f.tournament_code = g.tournament_code

\* C7: two calls of parse_score with the same (match_score, match_id,
\* tournament_code) return the same list, whichever came first and whatever
\* calls came between them.
C7_Idempotent ==
  \A t, u \in Slots :
    (Returned(t) /\ Returned(u) /\ SameArguments(frames[t], frames[u])) =>
      frames[t].score_array = frames[u].score_array

\* the second call of one caller and a call of the other, both of '64 75'
C7_Witness ==
  /\ Returned(1) /\ Returned(2)
  /\ calls[1] = 2
  /\ SameArguments(frames[1], frames[2])
  /\ frames[1].match_score = Some(<<"6", "4", " ", "7", "5">>)
  /\ frames[1].score_array =
       <<None, Some(2), Some(0), Some(13), Some(9), Some(0), Some(0)>>

TiebreakPair(tok, code) ==
  \/ tok \in { <<"7", "6">>, <<"6", "7">> }
  \/ code = NextGen /\ tok \in { <<"4", "3">>, <<"3", "4">> }

\* C8: a token of two distinct decimal digits gives one set to the side of
\* the greater digit, the first digit to winnerGames and the second to
\* loserGames, under every tournament code, in or out of the whitelist and
\* whatever the margin; a margin below 2 on a pair that is no tiebreak pair
\* adds an Error diagnostic and changes nothing else.
C8_TwoDigitTally ==
  [][\A t \in Slots :
       LET f == frames[t]
           g == frames'[t]
           tok == set_score_of(f)
           d0 == DigitValue(tok[1])
           d1 == DigitValue(tok[2])
       IN (Decoded(t) /\ Len(tok) = 2 /\ AllDigits(tok) /\ tok[1] # tok[2]) =>
            /\ g.pc = "loop" /\ g.pos = f.pos + 1 /\ g.exc = None
            /\ g.winner_sets_won = f.winner_sets_won + (IF d0 > d1 THEN 1 ELSE 0)
            /\ g.loser_sets_won = f.loser_sets_won + (IF d0 < d1 THEN 1 ELSE 0)
            /\ g.winner_games_won = f.winner_games_won + d0
            /\ g.loser_games_won = f.loser_games_won + d1
            /\ ((d0 - d1 < 2 /\ d1 - d0 < 2) /\ ~TiebreakPair(tok, f.tournament_code)) =>
                 /\ Len(g.log) > Len(f.log)
                 /\ LastLog(g) = <<"error", IF d0 > d1 THEN "(win) margin <2"
                                                       ELSE "(los) margin <2">>
                 /\ g.winner_tiebreaks_won = f.winner_tiebreaks_won
                 /\ g.loser_tiebreaks_won = f.loser_tiebreaks_won
    ]_vars

\* '65' outside the whitelist and with a margin of 1 is tallied and flagged
C8_Witness ==
  /\ frames[1].pc = "loop"
  /\ frames[1].match_score_array = << <<"6", "5">> >>
  /\ frames[1].pos = 1
  /\ frames[1].winner_sets_won = 1
  /\ frames[1].winner_games_won = 6
  /\ frames[1].loser_games_won = 5
  /\ frames[1].log =
       << <<"error", "score not in white list">>, <<"error", "(win) margin <2">> >>

\* the change of (winner tiebreaks, loser tiebreaks) C9 gives a token
TiebreakChange(tok, code) ==
  IF tok = <<"7", "6">> THEN <<1, 0>>
  ELSE IF tok = <<"6", "7">> THEN <<0, 1>>
  ELSE IF tok = <<"4", "3">> /\ code = NextGen THEN <<1, 0>>
  ELSE IF tok = <<"3", "4">> /\ code = NextGen THEN <<0, 1>>
  ELSE <<0, 0>>

TiebreaksAsInC9(t) ==
  LET f == frames[t]
      g == frames'[t]
  IN << g.winner_tiebreaks_won - f.winner_tiebreaks_won,
        g.loser_tiebreaks_won - f.loser_tiebreaks_won >>
       = TiebreakChange(set_score_of(f), f.tournament_code)

\* C9 as stated: every token of two characters changes the tiebreak counters
\* as '76', '67' and, under NextGen, '43' and '34' do, and no other does.
C9_AsClaimed ==
  [][\A t \in Slots :
       (Decoded(t) /\ Len(set_score_of(frames[t])) = 2) => TiebreaksAsInC9(t)]_vars

\* C9 as amended: the same of every token of two characters without '['.
C9_TwoCharTiebreaks ==
  [][\A t \in Slots :
       (Decoded(t) /\ Len(set_score_of(frames[t])) = 2
          /\ ~IsBracket(set_score_of(frames[t]))) => TiebreaksAsInC9(t)]_vars

\* '43' under the NextGen code has given the winner a tiebreak
C9_Witness ==
  /\ frames[1].pc = "loop"
  /\ frames[1].tournament_code = NextGen
  /\ frames[1].match_score_array = << <<"4", "3">> >>
  /\ frames[1].pos = 1
  /\ frames[1].winner_tiebreaks_won = 1
  /\ frames[1].loser_tiebreaks_won = 0

\* C10: a token containing '[' gives the winner one set, one game and one
\* tiebreak and the loser nothing, whatever else it holds and whatever the
\* tournament code; the one diagnostic it logs is Info under the Laver Cup
\* code and Warning under any other.
C10_BracketTieSet ==
  [][\A t \in Slots :
       LET f == frames[t]
           g == frames'[t]
       IN (Decoded(t) /\ IsBracket(set_score_of(f))) =>
            /\ g.pc = "loop" /\ g.pos = f.pos + 1 /\ g.exc = None
            /\ g.winner_sets_won = f.winner_sets_won + 1
            /\ g.winner_games_won = f.winner_games_won + 1
            /\ g.winner_tiebreaks_won = f.winner_tiebreaks_won + 1
            /\ g.loser_sets_won = f.loser_sets_won
            /\ g.loser_games_won = f.loser_games_won
            /\ g.loser_tiebreaks_won = f.loser_tiebreaks_won
            /\ Len(g.log) = Len(f.log) + 1
            /\ SubSeq(g.log, 1, Len(f.log)) = f.log
            /\ LastLog(g)[1] = (IF f.tournament_code = LaverCup THEN "info"
                                                                ELSE "warning")
    ]_vars

\* '[10-8]' under the Laver Cup code
C10_Witness ==
  /\ frames[1].pc = "loop"
  /\ frames[1].tournament_code = LaverCup
  /\ frames[1].match_score_array = << <<"[", "1", "0", "-", "8", "]">> >>
  /\ frames[1].pos = 1
  /\ frames[1].winner_sets_won = 1
  /\ frames[1].winner_games_won = 1
  /\ frames[1].winner_tiebreaks_won = 1
  /\ frames[1].log = << <<"info", "tie set Laver Cup">> >>

\* the six counters of a frame, winner's then loser's
Counters(f) ==
  << f.winner_sets_won, f.winner_games_won, f.winner_tiebreaks_won,
     f.loser_sets_won, f.loser_games_won, f.loser_tiebreaks_won >>

\* the change of the six counters over the step of caller t
Delta(t) ==
  [i \in 1..6 |-> Counters(frames'[t])[i] - Counters(frames[t])[i]]

\* the loop of caller t has gone on to the next token without a fault
GoesOn(t) ==
  /\ frames'[t].pc = "loop"
  /\ frames'[t].pos = frames[t].pos + 1
  /\ frames'[t].exc = None

\* C11: the token '911' gives the loser the set: loserSets grows by 1,
\* loserGames by 11 and winnerGames by the last digit (1); nothing else
\* changes and nothing is logged.  (Line 171 reads set_score[0:2], which is
\* '91': the code adds 91 to loserGames.)
C11_NineEleven ==
  [][\A t \in Slots :
       (Decoded(t) /\ set_score_of(frames[t]) = <<"9", "1", "1">>) =>
         /\ GoesOn(t)
         /\ Delta(t) = <<0, 1, 0, 1, 11, 0>>
         /\ frames'[t].log = frames[t].log
    ]_vars

\* (winner games, loser games) of the three-character tokens the winner wins
SuperTiebreakGames(tok) ==
  CASE tok = <<"1", "0", "8">> -> <<10, 8>>
    [] tok = <<"1", "0", "6">> -> <<10, 6>>
    [] tok = <<"1", "0", "7">> -> <<10, 7>>
    [] tok = <<"1", "1", "9">> -> <<11, 9>>

\* C12: '108', '106', '107' and '119' give the winner one set with games
\* 10/8, 10/6, 10/7 and 11/9; '810' gives the loser one set, the loser 10
\* games and the winner the token's last digit (0); no tiebreak counter
\* changes and nothing is logged.  As sole token under code '520', '108'
\* returns [None, 1, 0, 10, 8, 0, 0] and the set count 1-0 is flagged.
C12_ThreeCharLookup ==
  [][\A t \in Slots :
       LET tok == set_score_of(frames[t])
       IN /\ (Decoded(t) /\ tok \in { <<"1", "0", "8">>, <<"1", "0", "6">>,
                                      <<"1", "0", "7">>, <<"1", "1", "9">> }) =>
               /\ GoesOn(t)
               /\ Delta(t) = <<1, SuperTiebreakGames(tok)[1], 0,
                               0, SuperTiebreakGames(tok)[2], 0>>
               /\ frames'[t].log = frames[t].log
          /\ (Decoded(t) /\ tok = <<"8", "1", "0">>) =>
               /\ GoesOn(t)
               /\ Delta(t) = <<0, 0, 0, 1, 10, 0>>
               /\ frames'[t].log = frames[t].log
          /\ (Returned(t) /\ frames[t].match_score_array = << <<"1", "0", "8">> >>) =>
               /\ frames[t].score_array =
                    <<None, Some(1), Some(0), Some(10), Some(8), Some(0), Some(0)>>
               /\ frames[t].log = << <<"error", "unexpected match score">> >>
    ]_vars

\* scenario D: '108' as the sole token under the Grand Slam code '520'
C12_Witness ==
  /\ Returned(1)
  /\ frames[1].tournament_code = Code520
  /\ frames[1].match_score = Some(<<"1", "0", "8">>)
  /\ frames[1].score_array =
       <<None, Some(1), Some(0), Some(10), Some(8), Some(0), Some(0)>>
  /\ frames[1].log = << <<"error", "unexpected match score">> >>

Zero == <<0, 0, 0, 0, 0, 0>>

\* the frame of caller t has logged at least one more line, the last an Error
\* with this tag, and kept the lines it had
LogsError(t, tag) ==
  /\ Len(frames'[t].log) > Len(frames[t].log)
  /\ SubSeq(frames'[t].log, 1, Len(frames[t].log)) = frames[t].log
  /\ LastLog(frames'[t]) = <<"error", tag>>

\* C13: a two-character token of two equal digits changes none of the six
\* counters, logs an Error, and the loop goes on to the token after it; as the
\* sole token it yields [None, 0, 0, 0, 0, 0, 0].
C13_EqualDigits ==
  [][\A t \in Slots :
       LET tok == set_score_of(frames[t])
       IN /\ (Decoded(t) /\ Len(tok) = 2 /\ IsDigit(tok[1]) /\ tok[1] = tok[2]) =>
               /\ GoesOn(t)
               /\ Delta(t) = Zero
               /\ LogsError(t, "len==2 but equal digits")
          /\ (Returned(t) /\ Len(frames[t].match_score_array) = 1
                /\ Len(frames[t].match_score_array[1]) = 2
                /\ IsDigit(frames[t].match_score_array[1][1])
                /\ frames[t].match_score_array[1][1] = frames[t].match_score_array[1][2]) =>
               frames[t].score_array =
                 <<None, Some(0), Some(0), Some(0), Some(0), Some(0), Some(0)>>
    ]_vars

\* '33 64': the set after the equal digits has been tallied
C13_Witness ==
  /\ Returned(1)
  /\ frames[1].match_score_array = << <<"3", "3">>, <<"6", "4">> >>
  /\ frames[1].log[2] = <<"error", "len==2 but equal digits">>
  /\ frames[1].score_array =
       <<None, Some(1), Some(0), Some(6), Some(4), Some(0), Some(0)>>

ThreeCharTokens ==
  { <<"8", "1", "0">>, <<"9", "1", "1">>, <<"1", "0", "8">>,
    <<"1", "0", "6">>, <<"1", "0", "7">>, <<"1", "1", "9">> }

HalvesCompareAsNumbers ==
  \A l \in DigitPairs, r \in DigitPairs :
    /\ StrGreater(l, r) <=> DigitsValue(l) > DigitsValue(r)
    /\ ParseInt(l) = Some(DigitsValue(l))

\* C15: on a token of four decimal digits the comparison of the two halves as
\* strings is their comparison as numbers; the side of the greater half gets
\* the set, winnerGames grows by the first half and loserGames by the second,
\* no tiebreak counter changes; equal halves change no counter.
C15_FourDigits ==
  /\ HalvesCompareAsNumbers
  /\ [][\A t \in Slots :
          LET tok == set_score_of(frames[t])
              l == DigitsValue(SubSeq(tok, 1, 2))
              r == DigitsValue(SubSeq(tok, 3, 4))
          IN (Decoded(t) /\ Len(tok) = 4 /\ AllDigits(tok)) =>
               /\ GoesOn(t)
               /\ Delta(t) = IF l > r THEN <<1, l, 0, 0, r, 0>>
                             ELSE IF l < r THEN <<0, l, 0, 1, r, 0>>
                             ELSE Zero
       ]_vars

\* '1012': the loser takes the set 12 games to 10
C15_Witness ==
  /\ frames[1].pc = "loop"
  /\ frames[1].match_score_array = << <<"1", "0", "1", "2">> >>
  /\ frames[1].pos = 1
  /\ Counters(frames[1]) = <<0, 10, 0, 1, 12, 0>>

\* C16: a token of seven or more characters without '[' is read by its first
\* two and its next two characters: the side of the greater prefix gets one
\* set and one tiebreak, winnerGames grows by the first prefix and loserGames
\* by the second; equal prefixes change no counter.  (A prefix that is no
\* number makes int() raise at lines 217-218 or 222-223, and the call ends.)
C16_LongTiebreak ==
  [][\A t \in Slots :
       LET tok == set_score_of(frames[t])
           left == SubSeq(tok, 1, 2)
           right == SubSeq(tok, 3, 4)
       IN (Decoded(t) /\ ~IsBracket(tok) /\ Len(tok) >= 7) =>
            /\ GoesOn(t)
            /\ Delta(t) =
                 IF left = right THEN Zero
                 ELSE IF StrGreater(left, right)
                 THEN <<1, ParseInt(left)[1], 1, 0, ParseInt(right)[1], 0>>
                 ELSE <<0, ParseInt(left)[1], 0, 1, ParseInt(right)[1], 1>>
    ]_vars

\* a set with its tiebreak detail in parentheses, as line 138 of
\* _compose_score_from_score_item_arrays writes it: '76(5)'
IsParenTiebreak(tok) ==
  /\ Len(tok) = 5
  /\ IsDigit(tok[1]) /\ IsDigit(tok[2]) /\ tok[1] # tok[2]
  /\ tok[3] = "(" /\ IsDigit(tok[4]) /\ tok[5] = ")"

\* '64 76(5)' as the scraper composes it from the cells of the page
SixFourSevenSixFive ==
  compose_score_from_score_item_arrays(
    << <<"6">>, <<"7">> >>, << <<"4">>, <<"6">> >>, << <<>>, <<"5">> >>)

\* C17: a tiebreak set written with its detail in parentheses, such as
\* '76(5)', is tallied: one set and one tiebreak for the side that won it and
\* the two digits added to the games.  (The token has five characters and no
\* '[': it takes lines 230-231, is logged as unhandled and tallies nothing.)
C17_ParenTiebreak ==
  [][\A t \in Slots :
       LET tok == set_score_of(frames[t])
           a == DigitValue(tok[1])
           b == DigitValue(tok[2])
       IN /\ (Decoded(t) /\ IsParenTiebreak(tok)) =>
               /\ GoesOn(t)
               /\ Delta(t) = IF a > b THEN <<1, a, 1, 0, b, 0>>
                                      ELSE <<0, a, 0, 1, b, 1>>
          /\ (Returned(t) /\ frames[t].match_score = Some(SixFourSevenSixFive)) =>
               frames[t].score_array =
                 <<None, Some(2), Some(0), Some(13), Some(10), Some(1), Some(0)>>
    ]_vars

\* the outcomes of a best-of-3 or best-of-5 match, (winner sets, loser sets)
AllowedOutcomes == { <<3, 0>>, <<3, 1>>, <<3, 2>>, <<2, 0>>, <<2, 1>> }

\* the loop of caller t has run out of tokens and the call returns
Aggregated(t) ==
  /\ frames[t].pc = "loop"
  /\ ~HasToken(frames[t])
  /\ frames'[t] # frames[t]

\* C18: when the tokens are used up, one Error diagnostic is emitted if and
\* only if (winnerSets, loserSets) is none of 3-0, 3-1, 3-2, 2-0, 2-1; with
\* or without it the call returns the six counters as they stand.
C18_SetCountCheck ==
  [][\A t \in Slots :
       LET f == frames[t]
           g == frames'[t]
       IN Aggregated(t) =>
            /\ g.pc = "returned"
            /\ Counters(g) = Counters(f)
            /\ g.score_array =
                 << None, Some(f.winner_sets_won), Some(f.loser_sets_won),
                    Some(f.winner_games_won), Some(f.loser_games_won),
                    Some(f.winner_tiebreaks_won), Some(f.loser_tiebreaks_won) >>
            /\ g.log = IF <<f.winner_sets_won, f.loser_sets_won>> \in AllowedOutcomes
                       THEN f.log
                       ELSE Append(f.log, <<"error", "unexpected match score">>)
    ]_vars

\* a match won 3-2 passes the check: nothing is logged
C18_Witness ==
  /\ Returned(1)
  /\ frames[1].match_score_array =
       << <<"6", "4">>, <<"4", "6">>, <<"6", "3">>, <<"4", "6">>, <<"6", "2">> >>
  /\ frames[1].log = <<>>
  /\ frames[1].score_array =
       <<None, Some(3), Some(2), Some(26), Some(21), Some(0), Some(0)>>

IsBlank(s) == \A i \in 1..Len(s) : s[i] = " "

\* C19: an empty or whitespace-only score text is Played with zero tokens:
\* the classifier answers None, the split yields no token, the call returns
\* [None, 0, 0, 0, 0, 0, 0] and the one diagnostic is the Error of the set
\* count check on 0-0.
C19_BlankIsPlayed ==
  \A t \in Slots :
    (frames[t].match_score # None /\ IsBlank(frames[t].match_score[1])) =>
      /\ frames[t].pc \in {"classify", "loop_entry", "loop", "returned"}
      /\ frames[t].match_ret = None
      /\ frames[t].match_score_array = <<>>
      /\ frames[t].exc = None
      /\ Counters(frames[t]) = Zero
      /\ Returned(t) =>
           /\ frames[t].score_array =
                <<None, Some(0), Some(0), Some(0), Some(0), Some(0), Some(0)>>
           /\ frames[t].log = << <<"error", "unexpected match score">> >>

\* a text of two spaces has been answered
C19_Witness ==
  /\ Returned(1)
  /\ frames[1].match_score = Some(<<" ", " ">>)
  /\ frames[1].score_array =
       <<None, Some(0), Some(0), Some(0), Some(0), Some(0), Some(0)>>
  /\ frames[1].log = << <<"error", "unexpected match score">> >>

\* C20: a match whose id is a key of the skip mapping is dropped at the skip
\* test, before anything is done with its score: no call of parse_score ever
\* holds its id, no row of data has its id, and the step that skips a node
\* changes no frame, adds no row and leaves the mapping as loaded.
C20_SkippedNeverParsed ==
  [][/\ \A t \in Slots :
          frames'[t].pc # "idle" =>
            frames'[t].match_id \notin dic_match_scores_skip_adj'
     /\ \A r \in data' : r[1][2] \notin dic_match_scores_skip_adj'
     /\ phase = "parse" => dic_match_scores_skip_adj' = SkipRowsOf(workload)
     /\ (calls' # calls /\ frames' = frames) =>
          /\ rows' = rows
          /\ data' = data
    ]_vars

\* of two match nodes one was skipped and the other parsed and stored
C20_Witness ==
  /\ phase = "parse"
  /\ dic_match_scores_skip_adj = {"m2"}
  /\ calls[1] = 2
  /\ rows = 1
  /\ data = { << <<"match_id", "m1">> >> }
  /\ frames[1].pc = "idle"

\* the call of caller t is the one line 343 makes for the node the loop is at
ParsesNode(t) == frames[t].pc # "idle" /\ node[t] # IdleNode

HasOverride(match_id) == match_id \in DOMAIN dic_match_scores_adj

\* the rows of data that carry the score text of their match
FullRows == { r \in data : Len(r) = 20 }

\* C21 as stated: with an override for the match id, the text handed to
\* parse_score is the override itself; without one it is the page's text with
\* its runs of spaces squeezed. An override that holds a run of spaces is
\* handed on squeezed, not as it is stored.
C21_AsClaimed ==
  \A t \in Slots :
    ParsesNode(t) =>
      frames[t].match_score =
        IF HasOverride(node[t].match_id)
        THEN Some(dic_match_scores_adj[node[t].match_id])
        ELSE Some(squeeze(node[t].scraped))

\* C21: the text handed to parse_score and the score text of the row is the
\* override of the match id with its runs of spaces squeezed when the mapping
\* has one, whatever the page shows, and the page's text with its runs of
\* spaces squeezed when it has none.
C21_OverrideWins ==
  [][\A t \in Slots :
       /\ ParsesNode(t)' =>
            frames'[t].match_score =
              IF HasOverride(node'[t].match_id)
              THEN Some(squeeze(dic_match_scores_adj'[node'[t].match_id]))
              ELSE Some(squeeze(node'[t].scraped))
       /\ (ParsesNode(t) /\ rows' = rows + 1 /\ frames'[t].pc = "idle") =>
            \E r \in data' :
              /\ r[1] = <<"match_id", node[t].match_id>>
              /\ r[11] = <<"match_score", frames[t].match_score>>
    ]_vars

\* the row of match m1 carries the squeezed override, 64 75, of the stored
\* text 64  75 although the page showed another score
C21_Witness ==
  /\ dic_match_scores_adj = [x \in {"m1"} |-> <<"6", "4", " ", " ", "7", "5">>]
  /\ \E r \in FullRows :
       /\ r[1] = <<"match_id", "m1">>
       /\ r[11] = <<"match_score", Some(<<"6", "4", " ", "7", "5">>)>>
       /\ r[20] = <<"match_duration", Some(95)>>

Columns == {"set_score", "stats_url", "to_skip"}

\* C22: each of the three adjustment mappings is loaded once, and all three
\* before any match node is taken; once the loop over the tournaments runs, no
\* step loads a mapping again or adds, removes or changes an entry of one.
C22_LoadedOnce ==
  [][/\ \A column \in Columns : fills'[column] <= 1
     /\ phase' = "parse" => \A column \in Columns : fills'[column] = 1
     /\ phase = "parse" =>
          /\ phase' = "parse"
          /\ dic_match_scores_adj' = dic_match_scores_adj
          /\ dic_match_scores_stats_url_adj' = dic_match_scores_stats_url_adj
          /\ dic_match_scores_skip_adj' = dic_match_scores_skip_adj
          /\ fills' = fills
     /\ (frames' # frames \/ calls' # calls \/ data' # data) => phase = "parse"
    ]_vars

\* two matches have been parsed and stored under mappings that each hold an
\* entry, every one loaded once
C22_Witness ==
  /\ phase = "parse"
  /\ \A column \in Columns : fills[column] = 1
  /\ DOMAIN dic_match_scores_adj = {"m1"}
  /\ DOMAIN dic_match_scores_stats_url_adj = {"m2"}
  /\ dic_match_scores_skip_adj = {"m3"}
  /\ rows = 2
  /\ \E r \in FullRows : r[12] = <<"match_stats_url", <<"u", "2">>>>

\* the frame a call with the arguments of f ends in when it runs alone
Alone(f) == run(enter(IdleFrame, f.match_score, f.match_id, f.tournament_code))

\* C23: whatever the interleaving of the steps of two calls of parse_score on
\* one extractor, each call returns the list, and has logged the lines, that
\* the same call returns and logs when it runs alone; no call ends in an
\* exception.
C23_CallsDoNotInterfere ==
  \A t \in Slots :
    /\ frames[t].pc # "raised"
    /\ frames[t].pc = "returned" =>
         /\ frames[t].score_array = Alone(frames[t]).score_array
         /\ frames[t].log = Alone(frames[t]).log

\* the call on '64 76' has returned two sets to none with one tiebreak while
\* the call on '2220 7667123 6' of the other thread is past its first token
C23_Witness ==
  /\ workload = "threads"
  /\ Returned(1)
  /\ frames[1].match_score = Some(<<"6", "4", " ", "7", "6">>)
  /\ frames[1].score_array =
       <<None, Some(2), Some(0), Some(13), Some(10), Some(1), Some(0)>>
  /\ frames[2].pc = "loop"
  /\ frames[2].pos = 1
  /\ Len(frames[2].match_score_array) = 3

\* the column a variable of the loop is stored in
ColumnOf(name) ==
  CASE name = "match_id" -> "id"
    [] name = "match_score" -> "score"
    [] name = "match_stats_url" -> "stats_url"
    [] OTHER -> name

Flags == {None, Some(FlagWO), Some(FlagRET), Some(FlagWEA)}

\* the list a played match is answered with, from the counters of the frame
PlayedList(f) ==
  << None, Some(f.winner_sets_won), Some(f.loser_sets_won),
     Some(f.winner_games_won), Some(f.loser_games_won),
     Some(f.winner_tiebreaks_won), Some(f.loser_tiebreaks_won) >>

\* C24: whenever parse_score has returned, its list has 7 fields: the flag,
\* one of None, (W/O), (RET), (WEA), and then either six None (not played, or
\* an internal fault, where the flag is None too) or the counters in the order
\* winner sets, loser sets, winner games, loser games, winner tiebreaks, loser
\* tiebreaks; and every row of data has 20 fields whose names, in order, are
\* the columns of INSERT_STR.
C24_SevenFieldsTwentyColumns ==
  /\ \A t \in Slots :
       Returned(t) =>
         /\ Len(frames[t].score_array) = 7
         /\ frames[t].score_array[1] \in Flags
         /\ \/ frames[t].score_array = AllNone
            \/ /\ frames[t].match_ret # None
               /\ frames[t].score_array =
                    <<frames[t].match_ret, None, None, None, None, None, None>>
            \/ /\ frames[t].match_ret = None
               /\ frames[t].score_array = PlayedList(frames[t])
  /\ workload = "rows" =>
       \A r \in data :
         /\ Len(r) = 20
         /\ [i \in 1..Len(r) |-> ColumnOf(r[i][1])] = INSERT_STR

\* data holds the row of a walkover, flag and six None, and the row of a
\* match played 64 75, under the columns 13 to 19
C24_Witness ==
  /\ \E r \in FullRows :
       SubSeq(r, 13, 19) = Named(<<Some(FlagWO), None, None, None, None, None, None>>)
  /\ \E r \in FullRows :
       /\ r[11] = <<"match_score", Some(<<"6", "4", " ", "7", "5">>)>>
       /\ r[14] = <<"winner_sets_won", Some(2)>>
       /\ r[15] = <<"loser_sets_won", Some(0)>>
       /\ r[16] = <<"winner_games_won", Some(13)>>
       /\ r[17] = <<"loser_games_won", Some(9)>>
       /\ r[18] = <<"winner_tiebreaks_won", Some(0)>>
       /\ r[19] = <<"loser_tiebreaks_won", Some(0)>>

\* the tiebreaks of each side are no more than its sets
TiebreaksWithinSets(f) ==
  /\ f.winner_tiebreaks_won <= f.winner_sets_won
  /\ f.loser_tiebreaks_won <= f.loser_sets_won

\* C25: a token never adds more to the tiebreaks of a side than to its sets,
\* so after every token, and in the list of every played match, the winner's
\* tiebreaks are at most the winner's sets and the loser's tiebreaks at most
\* the loser's sets.
C25_TiebreakNeedsSet ==
  [][\A t \in Slots :
       /\ (HasToken(frames[t]) /\ frames'[t] # frames[t]) =>
            /\ Delta(t)[3] <= Delta(t)[1]
            /\ Delta(t)[6] <= Delta(t)[4]
            /\ \A i \in {1, 3, 4, 6} : Delta(t)[i] >= 0
       /\ TiebreaksWithinSets(frames'[t])
       /\ (frames'[t].pc = "returned" /\ frames'[t].score_array = PlayedList(frames'[t])) =>
            /\ frames'[t].score_array[6][1] <= frames'[t].score_array[2][1]
            /\ frames'[t].score_array[7][1] <= frames'[t].score_array[3][1]
    ]_vars

\* 76 76 has been answered: two sets, two tiebreaks
C25_Witness ==
  /\ Returned(1)
  /\ frames[1].match_score_array = << <<"7", "6">>, <<"7", "6">> >>
  /\ frames[1].score_array =
       <<None, Some(2), Some(0), Some(14), Some(12), Some(2), Some(0)>>

IsPrefix(s, t) == Len(s) <= Len(t) /\ s = SubSeq(t, 1, Len(s))

\* what a batch has done to the database and the CSV file
Effects(b) == <<b.truncated, b.stored, b.loaded, b.called, b.connects>>

\* C26: the steps of extract start in the order request, parse, truncate, CSV
\* store, load to staging, pre-process, stored procedures, post-process; once a
\* step has raised no further step starts and nothing more is truncated,
\* stored, loaded or called; a batch in which a step raised ends reported
\* with errors, once, and never successfully; a batch is reported successfully
\* only after all steps ran; no exception leaves extract; and when extract
\* ends the connection is closed.
C26_ExtractOrder ==
  [][batch' # batch =>
       /\ IsPrefix(batch'.ran, Steps)
       /\ Len(batch'.ran) \in {Len(batch.ran), Len(batch.ran) + 1}
       /\ batch.raised # None =>
            /\ batch'.ran = batch.ran
            /\ Effects(batch') = Effects(batch)
            /\ batch'.raised = batch.raised
       /\ \A i \in 1..Len(batch'.reports) :
            batch'.reports[i] = "successfully" =>
              batch'.raised = None /\ batch'.ran = Steps
       /\ batch'.pc # "propagated"
       /\ batch'.pc = "done" =>
            /\ batch'.con = "closed"
            /\ batch'.reports =
                 IF batch'.raised # None THEN <<"with_errors">> ELSE <<"successfully">>
    ]_vars

\* the parse raised: the batch ended with errors, the table was not truncated
\* and nothing was loaded, and the connection is closed
C26_Witness ==
  /\ batch # <<>>
  /\ batch.pc = "done"
  /\ batch.raised = Some("parse")
  /\ batch.ran = <<"request_url_by_chrome", "parse">>
  /\ batch.extractor.TABLE_NAME
  /\ ~batch.truncated
  /\ ~batch.loaded
  /\ batch.reports = <<"with_errors">>
  /\ batch.con = "closed"

\* the attempts of the request that raised
Failed(tries) == Len(SelectSeq(tries, LAMBDA o : o = "raised"))

\* all attempts but the last raised
AllButLastRaised(tries) ==
  tries # <<>> /\ \A i \in 1..(Len(tries) - 1) : tries[i] = "raised"

\* C27: a request that has started returns. It returns the page at the first
\* attempt that does not raise, None with no further attempt when that page is
\* a Cloudflare challenge, and None once max_retries attempts have raised; no
\* more than max_retries attempts fail; a navigation starts only with a driver
\* whose use count is below _max_driver_uses, and the use count never exceeds
\* that limit.
C27_RequestTerminates ==
  /\ [](chrome.driver_use_count <= max_driver_uses)
  /\ [](Failed(chrome.tries) <= chrome.max_retries)
  /\ [](chrome.pc = "get" =>
          chrome.driver # None /\ chrome.driver_use_count < max_driver_uses)
  /\ [](chrome.pc = "returned" =>
          \/ /\ chrome.result = Some("content")
             /\ AllButLastRaised(chrome.tries)
             /\ chrome.tries[Len(chrome.tries)] = "content"
          \/ /\ chrome.result = None
             /\ AllButLastRaised(chrome.tries)
             /\ chrome.tries[Len(chrome.tries)] = "challenge"
          \/ /\ chrome.result = None
             /\ Len(chrome.tries) = chrome.max_retries
             /\ Failed(chrome.tries) = chrome.max_retries)
  /\ (chrome.pc # "idle") ~> (chrome.pc = "returned")

\* after two attempts that raised the third one got the page, and this was
\* the last use the driver has before it is replaced
C27_Witness ==
  /\ chrome.pc = "returned"
  /\ chrome.max_retries = 3
  /\ chrome.tries = <<"raised", "raised", "content">>
  /\ chrome.result = Some("content")
  /\ chrome.driver_use_count = max_driver_uses

\* C28: under the command 'all' the components run are, in order, TOURNAMENTS,
\* PLAYERS, MATCHES, STATS, the next one after a failed one as after any
\* other; of each the one method called is the first of load, run, extract,
\* execute its instance has; and the process exits with status 0 if every
\* component returned True, else with status 1, after all four have run.
C28_AllMode ==
  (runner # <<>> /\ runner.cmd = "all") =>
    /\ [i \in 1..Len(runner.ran) |-> runner.ran[i].tag] =
         SubSeq(Components, 1, Len(runner.ran))
    /\ \A i \in 1..Len(runner.ran) :
         /\ Len(runner.ran[i].called) <= 1
         /\ runner.ran[i].called # <<>> =>
              /\ runner.classes[runner.ran[i].tag] # None
              /\ runner.ran[i].called[1] \in runner.classes[runner.ran[i].tag][1]
              /\ \A j \in 1..Len(MethodNames) :
                   MethodNames[j] = runner.ran[i].called[1] =>
                     \A k \in 1..(j - 1) :
                       MethodNames[k] \notin runner.classes[runner.ran[i].tag][1]
         /\ runner.ran[i].returned => runner.ran[i].called # <<>>
    /\ runner.status # None =>
         /\ Len(runner.ran) = Len(Components)
         /\ runner.status = Some(0) <=>
              \A i \in 1..Len(runner.ran) : runner.ran[i].returned
         /\ runner.status \in {Some(0), Some(1)}

\* TOURNAMENTS failed, the three after it ran and returned True, each through
\* one method, and the exit status is 1
C28_Witness ==
  /\ runner # <<>>
  /\ runner.cmd = "all"
  /\ Len(runner.ran) = 4
  /\ ~runner.ran[1].returned
  /\ runner.ran[1].called = <<"extract">>
  /\ runner.ran[2].called = <<"run">>
  /\ \A i \in 2..4 : runner.ran[i].returned
  /\ runner.status = Some(1)

\* the navigations of the last two dates taken both timed out
TwoTimeoutsInARow(outcomes) ==
  /\ Len(outcomes) >= 2
  /\ outcomes[Len(outcomes)] = "timeout"
  /\ outcomes[Len(outcomes) - 1] = "timeout"

\* C29: the scraper leaves the loop over the dates early exactly when the
\* navigations of the last two dates taken both timed out; with a load or any
\* other outcome between two timeouts it goes on.  (The except of lines
\* 170-177 does not reset the count: timeout, error, timeout leaves the loop.)
C29_TwoConsecutiveTimeouts ==
  rankings # <<>> =>
    (rankings.pc = "stopped" <=> TwoTimeoutsInARow(rankings.outcomes))

\* C30: for every match of the list that has been checked, data holds one row
\* of 9 fields whose names are, in order, those the MERGE statement gives its
\* bind positions :1 to :9, with the override as its score when the match has
\* one.  (The updater calls self._parse_score, a method no class defines: every
\* check ends in the except of line 139 and no row is appended.)
C30_RowPerMatch ==
  updater # <<>> =>
    /\ Len(updater.data) = updater.done
    /\ \A k \in 1..Len(updater.data) :
         /\ Len(updater.data[k]) = 9
         /\ [i \in 1..Len(updater.data[k]) |-> ColumnOf(updater.data[k][i][1])] = MERGE_BINDS
         /\ updater.data[k][1][2] = updater.matches_list[k][1]
         /\ updater.matches_list[k][1] \in DOMAIN updater.dic_match_scores_adj =>
              updater.data[k][2][2] =
                Some(updater.dic_match_scores_adj[updater.matches_list[k][1]])

=============================================================================
